---- MODULE Spec2Model ----
(***************************************************************************)
(* The five-round PLONK prover of                                          *)
(* src/plonk/better_cs/prover/prove_steps.rs (width-4 gates with a         *)
(* next-row wire), as a state machine over a small prime field.            *)
(*                                                                         *)
(* Field elements are the integers 0..P-1.  Polynomials are sequences of   *)
(* field elements; index i of the sequence (1-based) is element i-1 of the *)
(* Rust vector.  A group element (a commitment) is represented by its      *)
(* discrete logarithm, so a commitment to p against a CRS with trapdoor s  *)
(* is the field element p(s).                                              *)
(***************************************************************************)
EXTENDS Integers, Sequences, FiniteSets, TLC

\* a Vec<T>: the sequence with every element computed
vec(f) == SubSeq(f, 1, Len(f))

(***************************************************************************)
(* Field arithmetic (E::Fr).                                               *)
(***************************************************************************)
P == 97

Fr == 0..(P - 1)

FrAdd(a, b) == (a + b) % P

FrSub(a, b) == (a + P - b) % P

FrMul(a, b) == (a * b) % P

FrNeg(a) == (P - a) % P

\* E::Fr::multiplicative_generator(): a generator of the whole unit group.
multiplicative_generator == 5

\* Powers of the generator and discrete logarithms, tabulated once.
RECURSIVE GenPow(_)
GenPow(j) ==
    IF j = 0 THEN 1
    ELSE LET h == GenPow(j \div 2)
         IN IF j % 2 = 0 THEN (h * h) % P
            ELSE (((h * h) % P) * multiplicative_generator) % P

GenPowers == [k \in 0..(P - 2) |-> GenPow(k)]

GenLog == [a \in 1..(P - 1) |-> CHOOSE k \in 0..(P - 2) : GenPowers[k] = a]

\* Field::inverse(): None on zero; callers test for zero before using it.
FrInverse(a) == GenPowers[(P - 1 - GenLog[a]) % (P - 1)]

\* Field::pow(&[k])
FrPow(a, k) == IF a = 0 THEN (IF k = 0 THEN 1 ELSE 0)
               ELSE GenPowers[(GenLog[a] * k) % (P - 1)]

(***************************************************************************)
(* Evaluation domains (Domain::new_for_size).                              *)
(***************************************************************************)
IsPowerOfTwo(m) == m \in {1, 2, 4, 8, 16, 32}

\* log2_floor
log2_floor(m) == CHOOSE k \in 0..5 : 2 ^ k <= m /\ m < 2 ^ (k + 1)

next_power_of_two(m) == CHOOSE q \in {1, 2, 4, 8, 16, 32} :
                           q >= m /\ \A r \in {1, 2, 4, 8, 16, 32} : r >= m => q <= r

\* domain.generator for a domain of `sz` points: a primitive sz-th root
\* of unity, the roots of the nested domains being powers of one another.
DomainGenerator(sz) == GenPowers[(P - 1) \div sz]

\* omega^i in the domain of `sz` points
OmegaPow(sz, i) == GenPowers[(((P - 1) \div sz) * i) % (P - 1)]

\* materialize_domain_elements_with_natural_enumeration
materialize_domain_elements_with_natural_enumeration(sz) ==
    [i \in 1..sz |-> OmegaPow(sz, i - 1)]

(***************************************************************************)
(* Results of fallible calls (Result<T, SynthesisError>).                  *)
(***************************************************************************)
Ok(v) == [ok |-> TRUE, val |-> v]

Err(e) == [ok |-> FALSE, err |-> e]

(***************************************************************************)
(* Polynomial engine.  Values and Coefficients are both sequences; the     *)
(* domain of a polynomial is the power-of-two domain its length rounds up  *)
(* to.                                                                     *)
(***************************************************************************)
RECURSIVE HornerFrom(_, _, _)
HornerFrom(c, x, i) ==
    IF i > Len(c) THEN 0 ELSE FrAdd(c[i], FrMul(x, HornerFrom(c, x, i + 1)))

\* Polynomial<Coefficients>::evaluate_at
evaluate_at(c, x) == HornerFrom(c, x, 1)

\* Polynomial::new_for_size: the zero polynomial
new_for_size(sz) == vec([i \in 1..sz |-> 0])

\* Polynomial<Coefficients>::fft: values at omega^0 .. omega^(m-1)
fft(c) == vec([i \in 1..Len(c) |-> evaluate_at(c, OmegaPow(Len(c), i - 1))])

\* Polynomial<Values>::ifft: interpolation over the domain
ifft(v) ==
    LET m == Len(v)
        minv == FrInverse(m % P)
    IN vec([i \in 1..m |-> FrMul(minv, evaluate_at(v, OmegaPow(m, m - (i - 1))))])

\* distribute_powers(g): coefficient i is multiplied by g^i
distribute_powers(c, g) == vec([i \in 1..Len(c) |-> FrMul(c[i], FrPow(g, i - 1))])

\* reverse of the two low bits
reverse2bits(b) == ((b % 2) * 2) + (b \div 2)

\* reversal of the low `bits` bits of i
RECURSIVE bitreverse(_, _)
bitreverse(i, bits) ==
    IF bits = 0 THEN 0
    ELSE (i % 2) * (2 ^ (bits - 1)) + bitreverse(i \div 2, bits - 1)

\* The fixed order of a factor-4 coset LDE of a size-n polynomial: slot
\* a + (b << log2 n) holds the evaluation at natural index 4a + reverse2bits(b).
LdeNaturalIndex(slot, n) == 4 * (slot % n) + reverse2bits(slot \div n)

\* bitreversed_lde_using_bitreversed_ntt(worker, factor, coset_factor, kern)
bitreversed_lde_using_bitreversed_ntt(c, factor, coset_factor) ==
    LET n == Len(c)
        m == factor * n
    IN IF ~IsPowerOfTwo(n) THEN Err("Unsatisfiable")
       ELSE Ok(vec([s \in 1..m |->
                 evaluate_at(c, FrMul(coset_factor,
                                      OmegaPow(m, LdeNaturalIndex(s - 1, n))))]))

\* bitreverse_enumeration_partial(worker, start, sz): bit-reversal
\* permutation of the block start .. start+sz-1
bitreverse_enumeration_partial(v, start, sz) ==
    vec([i \in 1..Len(v) |->
           IF i - 1 >= start /\ i - 1 < start + sz
           THEN v[start + bitreverse(i - 1 - start, log2_floor(sz)) + 1]
           ELSE v[i]])

\* bitreverse_enumeration(worker): bit-reversal permutation of the whole array
bitreverse_enumeration(v) == bitreverse_enumeration_partial(v, 0, Len(v))

\* icoset_fft_for_generator(worker, g, kern): natural-order values on the
\* coset g*H back to coefficients
icoset_fft_for_generator(v, g) == distribute_powers(ifft(v), FrInverse(g))

\* Elementwise operations
add_assign(a, b) == vec([i \in 1..Len(a) |-> FrAdd(a[i], b[i])])

mul_assign(a, b) == vec([i \in 1..Len(a) |-> FrMul(a[i], b[i])])

add_assign_scaled(a, b, s) == vec([i \in 1..Len(a) |-> FrAdd(a[i], FrMul(s, b[i]))])

sub_assign_scaled(a, b, s) == vec([i \in 1..Len(a) |-> FrSub(a[i], FrMul(s, b[i]))])

add_constant(a, k) == vec([i \in 1..Len(a) |-> FrAdd(a[i], k)])

sub_constant(a, k) == vec([i \in 1..Len(a) |-> FrSub(a[i], k)])

scale(a, s) == vec([i \in 1..Len(a) |-> FrMul(a[i], s)])

\* batch_inversion: fails on an array containing zero
batch_inversion(v) ==
    IF \E i \in 1..Len(v) : v[i] = 0 THEN Err("DivisionByZero")
    ELSE Ok([i \in 1..Len(v) |-> FrInverse(v[i])])

\* calculate_shifted_grand_product: p[0] = 1, p[i] = v[0] * ... * v[i-1]
RECURSIVE PartialProduct(_, _)
PartialProduct(v, k) == IF k = 0 THEN 1 ELSE FrMul(PartialProduct(v, k - 1), v[k])

calculate_shifted_grand_product(v) ==
    vec([i \in 1..(Len(v) + 1) |-> PartialProduct(v, i - 1)])

\* break_into_multiples(sz): consecutive chunks of `sz` coefficients
break_into_multiples(c, sz) ==
    IF Len(c) % sz # 0 THEN Err("Unsatisfiable")
    ELSE Ok([k \in 1..(Len(c) \div sz) |->
               vec([i \in 1..sz |-> c[(k - 1) * sz + i]])])

\* divide_single(poly, pt): the quotient of synthetic division by
\* (X - pt), the remainder dropped
RECURSIVE DivideCoeff(_, _, _)
DivideCoeff(c, pt, i) ==
    IF i >= Len(c) THEN 0
    ELSE FrAdd(c[i + 1], FrMul(pt, DivideCoeff(c, pt, i + 1)))

divide_single(c, pt) == vec([i \in 1..Len(c) |-> DivideCoeff(c, pt, i)])

\* calculate_lagrange_poly(worker, sz, idx, kern): L_idx in coefficient form
calculate_lagrange_poly(sz, idx) ==
    ifft([i \in 1..sz |-> IF i = idx + 1 THEN 1 ELSE 0])

\* evaluate_vanishing_for_size(pt, sz) = pt^sz - 1
evaluate_vanishing_for_size(pt, sz) == FrSub(FrPow(pt, sz), 1)

\* evaluate_vanishing_polynomial_of_degree_on_domain_size: X^degree - 1 on
\* the coset coset_factor * H_domain_size, natural order
evaluate_vanishing_polynomial_of_degree_on_domain_size(degree, coset_factor, sz) ==
    vec([i \in 1..sz |->
           evaluate_vanishing_for_size(FrMul(coset_factor, OmegaPow(sz, i - 1)), degree)])

\* evaluate_lagrange_poly_at_point(idx, domain, pt):
\* (omega^idx / N) * (pt^N - 1) / (pt - omega^idx)
evaluate_lagrange_poly_at_point(idx, sz, pt) ==
    LET w == OmegaPow(sz, idx)
        den == FrMul(FrSub(pt, w), sz % P)
    IN IF den = 0 THEN Err("DivisionByZero")
       ELSE Ok(FrMul(FrMul(w, evaluate_vanishing_for_size(pt, sz)),
                     FrInverse(den)))

\* evaluate_l0_at_point(sz, pt) = (pt^N - 1) / (N * (pt - 1))
evaluate_l0_at_point(sz, pt) == evaluate_lagrange_poly_at_point(0, sz, pt)

(***************************************************************************)
(* Commitments.  The CRS hides a trapdoor s; the monomial-form key holds   *)
(* the bases s^i and the Lagrange-form key the bases L_i(s) of the same    *)
(* CRS over the domain of `sz` points.                                   *)
(***************************************************************************)
CrsTrapdoor == 3

Crs_monomial(sz) == vec([i \in 1..sz |-> FrPow(CrsTrapdoor, i - 1)])

Crs_lagrange(sz) ==
    [i \in 1..sz |-> evaluate_at(calculate_lagrange_poly(sz, i - 1), CrsTrapdoor)]

\* dense multi-scalar multiplication of the first Len(scalars) bases
RECURSIVE dense_multiexp(_, _, _)
dense_multiexp(bases, scalars, i) ==
    IF i > Len(scalars) THEN 0
    ELSE FrAdd(FrMul(scalars[i], bases[i]), dense_multiexp(bases, scalars, i + 1))

\* commit_using_monomials(poly, crs_mons, worker, kern)
commit_using_monomials(poly, crs) ==
    IF Len(poly) > Len(crs) THEN Err("panic")
    ELSE Ok(dense_multiexp(crs, poly, 1))

\* commit_using_raw_values(values, crs_vals, worker, kern)
commit_using_raw_values(values, crs) ==
    IF Len(values) > Len(crs) THEN Err("panic")
    ELSE Ok(dense_multiexp(crs, values, 1))

(***************************************************************************)
(* The collaborators' data: circuits (SetupPolynomials), assemblies and    *)
(* the optional precomputation cache.                                      *)
(***************************************************************************)
STATE_WIDTH == 4

LDE_FACTOR == 4

\* make_non_residues(STATE_WIDTH - 1): k_1..k_3 with H, k_1 H, k_2 H, k_3 H
\* pairwise disjoint
make_non_residues == <<5, 7, 10>>

\* k_0 = 1 followed by the non-residues
CosetShift(col) == IF col = 0 THEN 1 ELSE make_non_residues[col]

\* A circuit is given by its rows: gate[r] = <<q_a, q_b, q_c, q_d, q_m,
\* q_const, q_dnext>> for r = 1..N (the last row is padding), the copy
\* cycles over the cells <<column, row>> (columns 0..3, rows 0..N-1), and
\* the number of public inputs.
ZeroGate == <<0, 0, 0, 0, 0, 0, 0>>

CircuitRows(id) ==
    IF id = "mul" THEN
        \* one row: a*b - c = 0
        << <<0, 0, P - 1, 0, 1, 0, 0>>, ZeroGate >>
    ELSE
        \* row 0: -a + input = 0; row 1: a*b - d_next = 0;
        \* row 2: b - c + d - 3 = 0; row 3: padding
        << <<P - 1, 0, 0, 0, 0, 0, 0>>,
           <<0, 0, 0, 0, 1, 0, P - 1>>,
           <<0, 1, P - 1, 1, 0, P - 3, 0>>,
           ZeroGate >>

CircuitCycles(id) ==
    IF id = "mul" THEN
        << << <<0, 0>>, <<3, 0>> >> >>
    ELSE
        << << <<0, 0>>, <<0, 1>> >>,
           << <<1, 1>>, <<1, 2>> >>,
           << <<3, 2>>, <<2, 2>> >>,
           << <<1, 0>>, <<2, 0>>, <<3, 0>>, <<2, 1>>, <<3, 1>>, <<0, 2>> >> >>

CircuitNumInputs(id) == IF id = "mul" THEN 0 ELSE 1

\* the image of a cell under the copy permutation
PermutedCell(id, cell) ==
    LET cyc == CircuitCycles(id)
        hit == {k \in 1..Len(cyc) : \E j \in 1..Len(cyc[k]) : cyc[k][j] = cell}
    IN IF hit = {} THEN cell
       ELSE LET k == CHOOSE k \in hit : TRUE
                j == CHOOSE j \in 1..Len(cyc[k]) : cyc[k][j] = cell
            IN cyc[k][(j % Len(cyc[k])) + 1]

\* SetupPolynomials of a circuit, every polynomial in coefficient form
SetupPolynomials(id) ==
    LET rows == CircuitRows(id)
        dsize == Len(rows)
    IN [ n |-> dsize - 1,
         num_inputs |-> CircuitNumInputs(id),
         selector_polynomials |->
             [k \in 1..6 |-> ifft([r \in 1..dsize |-> rows[r][k]])],
         next_step_selector_polynomials |->
             << ifft([r \in 1..dsize |-> rows[r][7]]) >>,
         permutation_polynomials |->
             [c \in 1..STATE_WIDTH |->
                 ifft([r \in 1..dsize |->
                         LET img == PermutedCell(id, <<c - 1, r - 1>>)
                         IN FrMul(CosetShift(img[1]), OmegaPow(dsize, img[2]))])] ]

\* SetupPolynomialsPrecomputations of a setup: the cached coset LDEs, the
\* X-coset and inverse vanishing evaluations in the fixed LDE order, and the
\* permutation values on the domain without its last pt.
SetupPolynomialsPrecomputations(setup) ==
    LET dsize == setup.n + 1
        big == LDE_FACTOR * dsize
        lde(c) == bitreversed_lde_using_bitreversed_ntt(c, LDE_FACTOR,
                                                    multiplicative_generator).val
    IN [ selector_polynomials_on_coset_of_size_4n_bitreversed |->
             [k \in 1..6 |-> lde(setup.selector_polynomials[k])],
         next_step_selector_polynomials_on_coset_of_size_4n_bitreversed |->
             << lde(setup.next_step_selector_polynomials[1]) >>,
         permutation_polynomials_on_coset_of_size_4n_bitreversed |->
             [k \in 1..STATE_WIDTH |-> lde(setup.permutation_polynomials[k])],
         permutation_polynomials_values_of_size_n_minus_one |->
             [k \in 1..STATE_WIDTH |->
                 SubSeq(fft(setup.permutation_polynomials[k]), 1, dsize - 1)],
         x_on_coset_of_size_4n_bitreversed |->
             [s \in 1..big |->
                 FrMul(multiplicative_generator,
                       OmegaPow(big, LdeNaturalIndex(s - 1, dsize)))],
         inverse_divisor_on_coset_of_size_4n_bitreversed |->
             [s \in 1..big |->
                 FrInverse(evaluate_vanishing_for_size(
                     FrMul(multiplicative_generator,
                       OmegaPow(big, LdeNaturalIndex(s - 1, dsize))), dsize))] ]

\* The satisfying witness columns of a circuit (length n each)
HonestWires(id) ==
    IF id = "mul" THEN << <<2>>, <<3>>, <<6>>, <<2>> >>
    ELSE << <<2, 2, 0>>, <<0, 3, 3>>, <<0, 0, 6>>, <<0, 0, 6>> >>

HonestInputs(id) == IF id = "mul" THEN <<>> ELSE <<2>>

\* the columns with cell <<col, row>> increased by delta
MutateWires(wires, col, row, delta) ==
    [c \in 1..STATE_WIDTH |->
        [r \in 1..Len(wires[c]) |->
            IF c = col + 1 /\ r = row + 1 THEN FrAdd(wires[c][r], delta)
            ELSE wires[c][r]]]

(***************************************************************************)
(* Option values.                                                          *)
(***************************************************************************)
None == [some |-> FALSE]

Some(v) == [some |-> TRUE, val |-> v]

(***************************************************************************)
(* PrecomputationsForPolynomial and the precomputation resolver.           *)
(***************************************************************************)
Borrowed(poly) == [tag |-> "Borrowed", poly |-> poly]

Owned(poly) == [tag |-> "Owned", poly |-> poly]

\* PrecomputationsForPolynomial::None
NoPrecomputation == [tag |-> "None"]

\* AsRef for PrecomputationsForPolynomial, on Borrowed and Owned
as_ref(prec) == prec.poly

\* the outcome of a round that reached unreachable!() in as_ref or into_poly
Unreachable == Err("unreachable")

\* as_ref and into_poly read every one of these wrappers without reaching
\* the None arm
Readable(precs) == \A k \in 1..Len(precs) : precs[k].tag # "None"

get_precomputed_permutation_poly_lde_for_index(index, setup, setup_precomputations) ==
    IF setup_precomputations.some
    THEN Ok(Borrowed(setup_precomputations.val
                .permutation_polynomials_on_coset_of_size_4n_bitreversed[index + 1]))
    ELSE LET p == bitreversed_lde_using_bitreversed_ntt(
                      setup.permutation_polynomials[index + 1],
                      LDE_FACTOR, multiplicative_generator)
         IN IF p.ok THEN Ok(Owned(p.val)) ELSE p

get_precomputed_selector_lde_for_index(index, setup, setup_precomputations) ==
    IF setup_precomputations.some
    THEN Ok(Borrowed(setup_precomputations.val
                .selector_polynomials_on_coset_of_size_4n_bitreversed[index + 1]))
    ELSE LET p == bitreversed_lde_using_bitreversed_ntt(
                      setup.selector_polynomials[index + 1],
                      LDE_FACTOR, multiplicative_generator)
         IN IF p.ok THEN Ok(Owned(p.val)) ELSE p

get_precomputed_next_step_selector_lde_for_index(index, setup, setup_precomputations) ==
    IF setup_precomputations.some
    THEN Ok(Borrowed(setup_precomputations.val
                .next_step_selector_polynomials_on_coset_of_size_4n_bitreversed[index + 1]))
    ELSE LET p == bitreversed_lde_using_bitreversed_ntt(
                      setup.next_step_selector_polynomials[index + 1],
                      LDE_FACTOR, multiplicative_generator)
         IN IF p.ok THEN Ok(Owned(p.val)) ELSE p

\* DstIndex that keeps only the lowest bit of the index in b
DstIndex_LowBitOnly(index, small_log) == (index \div 4) + ((index % 2) * 2) * (2 ^ small_log)

\* DstIndex that leaves every element where it is
DstIndex_InPlace(index, small_log) == index

\* DstIndex without the swap of the two low bits
DstIndex_NoSwap(index, small_log) == (index \div 4) + (index % 4) * (2 ^ small_log)

\* dst_index of the scattered copy: a = index >> 2,
\* b = ((index & 1) << 1) | ((index & 2) >> 1), dst = a + (b << small_log)
DstIndex(index, small_log) ==
    LET a == index \div 4
        b == ((index % 2) * 2) + ((index \div 2) % 2)
    IN a + b * (2 ^ small_log)

\* a slot of the pre-sized result buffer that no task wrote
Uninit == P

\* the result buffer after every task of the scope has run: slot s holds the
\* source element whose dst_index is s
ScatterByDstIndex(coeffs, small_log) ==
    vec([s \in 1..Len(coeffs) |->
           LET writers == {i \in 0..(Len(coeffs) - 1) : DstIndex(i, small_log) = s - 1}
           IN IF writers = {} THEN Uninit
              ELSE coeffs[(CHOOSE i \in writers : \A j \in writers : j <= i) + 1]])

\* get_precomputed_x_lde returning the empty wrapper when there is no cache
get_precomputed_x_lde_Empty(domain_size, setup_precomputations) ==
    IF setup_precomputations.some
    THEN Ok(Borrowed(setup_precomputations.val.x_on_coset_of_size_4n_bitreversed))
    ELSE Ok(NoPrecomputation)

get_precomputed_x_lde(domain_size, setup_precomputations) ==
    IF setup_precomputations.some
    THEN Ok(Borrowed(setup_precomputations.val.x_on_coset_of_size_4n_bitreversed))
    ELSE LET new_size == domain_size * LDE_FACTOR
             x_poly == distribute_powers(
                           [i \in 1..new_size |-> multiplicative_generator],
                           DomainGenerator(new_size))
         IN Ok(Owned(ScatterByDstIndex(x_poly, log2_floor(domain_size))))

get_precomputed_inverse_divisor(domain_size, setup_precomputations) ==
    IF setup_precomputations.some
    THEN Ok(Borrowed(setup_precomputations.val
                .inverse_divisor_on_coset_of_size_4n_bitreversed))
    ELSE LET new_size == domain_size * LDE_FACTOR
             vanishing == evaluate_vanishing_polynomial_of_degree_on_domain_size(
                              domain_size, multiplicative_generator, new_size)
             inverse == batch_inversion(vanishing)
         IN IF ~inverse.ok THEN inverse
            ELSE Ok(Owned(ScatterByDstIndex(inverse.val, log2_floor(domain_size))))

(***************************************************************************)
(* Round 1: commit the wires.                                              *)
(***************************************************************************)
\* the outcome of a round that panicked (failed assertion, index out of
\* bounds, unwrap of None)
Panic == Err("panic")

\* the buffer p after set_len(sz) and fast_clone(&wire_poly, &mut p): the
\* elements of wire_poly, followed by what the allocation held
fast_clone_into(wire_poly, sz, uninitialized) ==
    vec([i \in 1..sz |-> IF i <= Len(wire_poly) THEN wire_poly[i] ELSE uninitialized])

\* Collect with the values pushed in reverse order
Collect_Reversed(cs) ==
    IF \E i \in 1..Len(cs) : ~cs[i].ok
    THEN cs[CHOOSE i \in 1..Len(cs) : ~cs[i].ok /\ \A j \in 1..(i - 1) : cs[j].ok]
    ELSE Ok([i \in 1..Len(cs) |-> cs[Len(cs) + 1 - i].val])

\* a loop of fallible calls with `?`: the values in order, or the first error
Collect(cs) ==
    IF \E i \in 1..Len(cs) : ~cs[i].ok
    THEN cs[CHOOSE i \in 1..Len(cs) : ~cs[i].ok /\ \A j \in 1..(i - 1) : cs[j].ok]
    ELSE Ok([i \in 1..Len(cs) |-> cs[i].val])

\* first_step_with_lagrange_form_key without its two assertions
first_step_with_lagrange_form_key_Unchecked(self, crs_vals) ==
    LET input_values == self.input_assingments
        required_domain_size == self.n + 1
        non_residues == make_non_residues
        full_assignments == self.wires
        commitments == Collect([i \in 1..Len(full_assignments) |->
                           commit_using_raw_values(full_assignments[i], crs_vals)])
    IN IF ~commitments.ok THEN commitments
       ELSE Ok([ state |->
                    [ round |-> 1,
                      required_domain_size |-> required_domain_size,
                      non_residues |-> non_residues,
                      input_values |-> input_values,
                      witness_polys_as_coeffs |-> <<>>,
                      witness_polys_unpadded_values |-> full_assignments ],
                 message |->
                    [ round |-> 1,
                      n |-> self.n,
                      num_inputs |-> self.num_inputs,
                      input_values |-> input_values,
                      wire_commitments |-> commitments.val ] ])

first_step_with_lagrange_form_key(self, crs_vals) ==
    IF ~self.is_finalized THEN Panic
    ELSE IF ~IsPowerOfTwo(self.n + 1) THEN Panic
    ELSE
    LET input_values == self.input_assingments
        required_domain_size == self.n + 1
        non_residues == make_non_residues
        full_assignments == self.wires
        commitments == Collect([i \in 1..Len(full_assignments) |->
                           commit_using_raw_values(full_assignments[i], crs_vals)])
    IN IF ~commitments.ok THEN commitments
       ELSE Ok([ state |->
                    [ round |-> 1,
                      required_domain_size |-> required_domain_size,
                      non_residues |-> non_residues,
                      input_values |-> input_values,
                      witness_polys_as_coeffs |-> <<>>,
                      witness_polys_unpadded_values |-> full_assignments ],
                 message |->
                    [ round |-> 1,
                      n |-> self.n,
                      num_inputs |-> self.num_inputs,
                      input_values |-> input_values,
                      wire_commitments |-> commitments.val ] ])

first_step_with_monomial_form_key(self, crs_mons, uninitialized) ==
    IF ~self.is_finalized THEN Panic
    ELSE IF ~IsPowerOfTwo(self.n + 1) THEN Panic
    ELSE IF Len(self.wires) # 4 THEN Panic
    ELSE
    LET input_values == self.input_assingments
        required_domain_size == self.n + 1
        non_residues == make_non_residues
        full_assignments == self.wires
        polys == [i \in 1..Len(full_assignments) |->
                     fast_clone_into(full_assignments[i], required_domain_size,
                                     uninitialized[i])]
        wire_polys_as_coefficients == [i \in 1..Len(polys) |-> ifft(polys[i])]
        commitments == Collect([i \in 1..Len(wire_polys_as_coefficients) |->
                           commit_using_monomials(wire_polys_as_coefficients[i], crs_mons)])
    IN IF ~commitments.ok THEN commitments
       ELSE Ok([ state |->
                    [ round |-> 1,
                      required_domain_size |-> required_domain_size,
                      non_residues |-> non_residues,
                      input_values |-> input_values,
                      witness_polys_as_coeffs |-> wire_polys_as_coefficients,
                      witness_polys_unpadded_values |-> full_assignments ],
                 message |->
                    [ round |-> 1,
                      n |-> self.n,
                      num_inputs |-> self.num_inputs,
                      input_values |-> input_values,
                      wire_commitments |-> commitments.val ] ])

(***************************************************************************)
(* Round 2: the permutation grand product.                                 *)
(***************************************************************************)
\* GrandProductNumerator with every column on the coset of the first
GrandProductNumerator_NoNonResidues(protos, domain_elements_poly_by_beta, non_residues) ==
    LET z_1 == add_assign(protos[1], domain_elements_poly_by_beta)
        RECURSIVE fold(_, _)
        fold(acc, i) ==
            IF i > Len(protos) - 1 THEN acc
            ELSE fold(mul_assign(acc,
                        add_assign(protos[i + 1], domain_elements_poly_by_beta)), i + 1)
    IN fold(z_1, 1)

\* (A + beta*X + gamma) * prod_i (W_i + beta*k_i*X + gamma) over the domain
\* without its last pt
GrandProductNumerator(protos, domain_elements_poly_by_beta, non_residues) ==
    LET z_1 == add_assign(protos[1], domain_elements_poly_by_beta)
        RECURSIVE fold(_, _)
        fold(acc, i) ==
            IF i > Len(protos) - 1 \/ i > Len(non_residues) THEN acc
            ELSE fold(mul_assign(acc,
                        add_assign_scaled(protos[i + 1], domain_elements_poly_by_beta,
                                          non_residues[i])), i + 1)
    IN fold(z_1, 1)

\* GrandProductDenominator over the first three wires only
GrandProductDenominator_ThreeWires(protos, perms, beta) ==
    LET z_2 == add_assign_scaled(protos[1], as_ref(perms[1]), beta)
        RECURSIVE fold(_, _)
        fold(acc, i) ==
            IF i > Len(protos) - 1 \/ i > Len(perms) - 1 THEN acc
            ELSE fold(mul_assign(acc,
                        add_assign_scaled(protos[i], as_ref(perms[i]), beta)), i + 1)
    IN fold(z_2, 2)

\* prod_i (W_i + beta*sigma_i + gamma) over the domain without its last pt
GrandProductDenominator(protos, perms, beta) ==
    LET z_2 == add_assign_scaled(protos[1], as_ref(perms[1]), beta)
        RECURSIVE fold(_, _)
        fold(acc, i) ==
            IF i > Len(protos) \/ i > Len(perms) THEN acc
            ELSE fold(mul_assign(acc,
                        add_assign_scaled(protos[i], as_ref(perms[i]), beta)), i + 1)
    IN fold(z_2, 2)

\* the size-(n-1) permutation values: borrowed from the cache or computed
PermutationValuesOfSizeNMinusOne(setup, setup_precomputations) ==
    IF setup_precomputations.some
    THEN [k \in 1..Len(setup_precomputations.val
                         .permutation_polynomials_values_of_size_n_minus_one) |->
             Borrowed(setup_precomputations.val
                         .permutation_polynomials_values_of_size_n_minus_one[k])]
    ELSE [k \in 1..Len(setup.permutation_polynomials) |->
             LET as_values == fft(setup.permutation_polynomials[k])
             IN Owned(SubSeq(as_values, 1, Len(as_values) - 1))]

second_step_from_first_step(first_state, first_verifier_message, setup, crs_mons, setup_precomputations) ==
    IF Len(first_state.witness_polys_unpadded_values) # 4 THEN Panic
    ELSE
    LET beta == first_verifier_message.beta
        gamma == first_verifier_message.gamma
        grand_products_protos_with_gamma ==
            [i \in 1..4 |->
                add_constant(first_state.witness_polys_unpadded_values[i], gamma)]
        required_domain_size == first_state.required_domain_size
        all_elements ==
            materialize_domain_elements_with_natural_enumeration(required_domain_size)
        domain_elements == SubSeq(all_elements, 1, Len(all_elements) - 1)
        domain_elements_poly_by_beta == scale(domain_elements, beta)
        z_num == GrandProductNumerator(grand_products_protos_with_gamma,
                                       domain_elements_poly_by_beta,
                                       first_state.non_residues)
        perms == PermutationValuesOfSizeNMinusOne(setup, setup_precomputations)
        z_den == batch_inversion(
                     GrandProductDenominator(grand_products_protos_with_gamma,
                                             perms, beta))
    IN IF Len(perms) # Len(grand_products_protos_with_gamma) THEN Panic
       ELSE IF ~Readable(perms) THEN Unreachable
       ELSE IF ~z_den.ok THEN z_den
       ELSE
       LET z == calculate_shifted_grand_product(mul_assign(z_num, z_den.val))
       IN IF ~IsPowerOfTwo(Len(z)) THEN Panic
          ELSE IF z[1] # 1 THEN Panic
          ELSE
          LET z_in_monomial_form == ifft(z)
              z_commitment == commit_using_monomials(z_in_monomial_form, crs_mons)
          IN IF ~z_commitment.ok THEN z_commitment
             ELSE Ok([ state |->
                          [ round |-> 2,
                            required_domain_size |-> required_domain_size,
                            non_residues |-> first_state.non_residues,
                            input_values |-> first_state.input_values,
                            witness_polys_as_coeffs |->
                                first_state.witness_polys_as_coeffs,
                            z_in_monomial_form |-> z_in_monomial_form ],
                       message |->
                          [ round |-> 2, z_commitment |-> z_commitment.val ],
                       resolved |-> [k \in 1..Len(perms) |-> perms[k].tag] ])

(***************************************************************************)
(* Round 3: the quotient polynomial.                                       *)
(***************************************************************************)
\* the coset LDE every round-3 polynomial goes through
CosetLde(c) ==
    bitreversed_lde_using_bitreversed_ntt(c, LDE_FACTOR, multiplicative_generator).val

\* the omega of a polynomial's own domain
OmegaOf(c) == DomainGenerator(next_power_of_two(Len(c)))

\* the gate part of the quotient numerator on the coset:
\* (inputs + Q_const) + Q_A*A + Q_B*B + Q_C*C + Q_D*D + Q_M*A*B + Q_Dnext*D_next
GateContribution(input_values, required_domain_size, witness_ldes_on_coset, witness_next_ldes_on_coset, selectors, d_next_selector, setup) ==
    LET inputs_values_poly ==
            [i \in 1..required_domain_size |->
                IF i <= Len(input_values) THEN input_values[i] ELSE 0]
        inputs_poly ==
            add_assign(ifft(inputs_values_poly),
                       setup.selector_polynomials[Len(setup.selector_polynomials)])
        t_const == CosetLde(inputs_poly)
        t_a == add_assign(t_const,
                   mul_assign(witness_ldes_on_coset[1], as_ref(selectors[1])))
        t_b == add_assign(t_a,
                   mul_assign(witness_ldes_on_coset[2], as_ref(selectors[2])))
        t_c == add_assign(t_b,
                   mul_assign(witness_ldes_on_coset[3], as_ref(selectors[3])))
        t_d == add_assign(t_c,
                   mul_assign(witness_ldes_on_coset[4], as_ref(selectors[4])))
        t_m == add_assign(t_d,
                   mul_assign(mul_assign(witness_ldes_on_coset[1],
                                         witness_ldes_on_coset[2]),
                              as_ref(selectors[5])))
    IN add_assign(t_m,
           mul_assign(witness_next_ldes_on_coset[1], as_ref(d_next_selector)))

\* Z(X) * (A + beta*X + gamma) * prod_i (W_i + beta*k_i*X + gamma) on the coset
ContribZ(z_coset_lde_bitreversed, witness_ldes_on_coset, x_precomp, non_residues, beta, gamma) ==
    LET first == mul_assign(z_coset_lde_bitreversed,
                     add_assign_scaled(add_constant(witness_ldes_on_coset[1], gamma),
                                       as_ref(x_precomp), beta))
        RECURSIVE fold(_, _)
        fold(acc, i) ==
            IF i > Len(witness_ldes_on_coset) - 1 \/ i > Len(non_residues) THEN acc
            ELSE fold(mul_assign(acc,
                        add_assign_scaled(
                            add_constant(witness_ldes_on_coset[i + 1], gamma),
                            as_ref(x_precomp), FrMul(beta, non_residues[i]))), i + 1)
    IN fold(first, 1)

\* Z(X*omega) * prod_i (W_i + beta*sigma_i + gamma) on the coset
ContribZShifted(z_shifted_coset_lde_bitreversed, witness_ldes_on_coset, perms, beta, gamma) ==
    LET RECURSIVE fold(_, _)
        fold(acc, i) ==
            IF i > Len(witness_ldes_on_coset) THEN acc
            ELSE fold(mul_assign(acc,
                        add_assign_scaled(
                            add_constant(witness_ldes_on_coset[i], gamma),
                            as_ref(perms[i]), beta)), i + 1)
    IN fold(z_shifted_coset_lde_bitreversed, 1)

\* the partial bit-reversals of the LDE_FACTOR blocks followed by the
\* bit-reversal of the whole array
UnBitreverse(t_1, required_domain_size) ==
    LET RECURSIVE blocks(_, _)
        blocks(v, i) ==
            IF i >= LDE_FACTOR THEN v
            ELSE blocks(bitreverse_enumeration_partial(v, i * required_domain_size,
                                                       required_domain_size), i + 1)
    IN bitreverse_enumeration(blocks(t_1, 0))

third_step_from_second_step(second_state, second_verifier_message, setup, crs_mons, setup_precomputations) ==
    LET z_in_monomial_form == second_state.z_in_monomial_form
        z_shifted_in_monomial_form ==
            distribute_powers(z_in_monomial_form, OmegaOf(z_in_monomial_form))
        witness_polys_in_monomial_form == second_state.witness_polys_as_coeffs
        required_domain_size == second_state.required_domain_size
        witness_ldes_on_coset ==
            [i \in 1..Len(witness_polys_in_monomial_form) |->
                CosetLde(witness_polys_in_monomial_form[i])]
        witness_next_ldes_on_coset ==
            IF Len(witness_polys_in_monomial_form) >= STATE_WIDTH
            THEN << CosetLde(distribute_powers(
                        witness_polys_in_monomial_form[STATE_WIDTH],
                        OmegaOf(witness_polys_in_monomial_form[STATE_WIDTH]))) >>
            ELSE <<>>
        alpha == second_verifier_message.alpha
        beta == second_verifier_message.beta
        gamma == second_verifier_message.gamma
        input_values == second_state.input_values
    IN IF Len(input_values) > required_domain_size THEN Panic
       ELSE IF Len(witness_ldes_on_coset) < STATE_WIDTH THEN Panic
       ELSE
       LET selectors ==
               [k \in 1..5 |->
                   get_precomputed_selector_lde_for_index(k - 1, setup,
                                                          setup_precomputations)]
           d_next_selector ==
               get_precomputed_next_step_selector_lde_for_index(0, setup,
                                                                setup_precomputations)
           x_precomp == get_precomputed_x_lde(required_domain_size,
                                              setup_precomputations)
           perms ==
               [k \in 1..Len(witness_ldes_on_coset) |->
                   get_precomputed_permutation_poly_lde_for_index(k - 1, setup,
                                                                  setup_precomputations)]
           divisor_inversed ==
               get_precomputed_inverse_divisor(required_domain_size,
                                               setup_precomputations)
           non_residues == make_non_residues
       IN IF Len(non_residues) + 1 # Len(witness_ldes_on_coset) THEN Panic
          ELSE IF ~divisor_inversed.ok THEN divisor_inversed
          ELSE IF ~Readable([k \in 1..5 |-> selectors[k].val]
                            \o << d_next_selector.val, x_precomp.val >>
                            \o [k \in 1..Len(perms) |-> perms[k].val]
                            \o << divisor_inversed.val >>) THEN Unreachable
          ELSE
          LET t_gate ==
                  GateContribution(input_values, required_domain_size,
                                   witness_ldes_on_coset, witness_next_ldes_on_coset,
                                   [k \in 1..5 |-> selectors[k].val],
                                   d_next_selector.val, setup)
              z_coset_lde_bitreversed == CosetLde(z_in_monomial_form)
              z_shifted_coset_lde_bitreversed == CosetLde(z_shifted_in_monomial_form)
              challenge_1 == FrMul(1, alpha)
              t_perm_1 ==
                  add_assign_scaled(t_gate,
                      ContribZ(z_coset_lde_bitreversed, witness_ldes_on_coset,
                               x_precomp.val, non_residues, beta, gamma),
                      challenge_1)
              t_perm_2 ==
                  sub_assign_scaled(t_perm_1,
                      ContribZShifted(z_shifted_coset_lde_bitreversed,
                                      witness_ldes_on_coset,
                                      [k \in 1..Len(perms) |-> perms[k].val],
                                      beta, gamma),
                      challenge_1)
              challenge_2 == FrMul(challenge_1, alpha)
              l_0 == calculate_lagrange_poly(next_power_of_two(required_domain_size), 0)
              z_minus_one_by_l_0 ==
                  mul_assign(sub_constant(z_coset_lde_bitreversed, 1), CosetLde(l_0))
              t_l0 == add_assign_scaled(t_perm_2, z_minus_one_by_l_0, challenge_2)
              t_divided == mul_assign(t_l0, as_ref(divisor_inversed.val))
              t_poly_in_monomial_form ==
                  icoset_fft_for_generator(
                      UnBitreverse(t_divided, required_domain_size),
                      multiplicative_generator)
              t_poly_parts ==
                  break_into_multiples(t_poly_in_monomial_form, required_domain_size)
          IN IF ~t_poly_parts.ok THEN t_poly_parts
             ELSE
             LET commitments == Collect([i \in 1..Len(t_poly_parts.val) |->
                           commit_using_monomials(t_poly_parts.val[i], crs_mons)])
             IN IF ~commitments.ok THEN commitments
                ELSE Ok([ state |->
                             [ round |-> 3,
                               required_domain_size |-> required_domain_size,
                               non_residues |-> second_state.non_residues,
                               input_values |-> input_values,
                               witness_polys_as_coeffs |->
                                   witness_polys_in_monomial_form,
                               z_in_monomial_form |-> z_in_monomial_form,
                               t_poly_parts |-> t_poly_parts.val ],
                          message |->
                             [ round |-> 3,
                               quotient_poly_commitments |-> commitments.val ],
                          resolved |->
                             [k \in 1..5 |-> selectors[k].val.tag]
                             \o << d_next_selector.val.tag, x_precomp.val.tag >>
                             \o [k \in 1..Len(perms) |-> perms[k].val.tag]
                             \o << divisor_inversed.val.tag >> ])

(***************************************************************************)
(* Round 4: evaluations at z, the linearization polynomial and the         *)
(* self-check.                                                             *)
(***************************************************************************)
\* QuotientAtZ with the chunks weighted by powers of z instead of z^n
QuotientAtZ_PowersOfZ(t_poly_parts, z, required_domain_size) ==
    LET RECURSIVE fold(_, _, _)
        fold(result, current, i) ==
            IF i > Len(t_poly_parts) THEN result
            ELSE fold(FrAdd(result, FrMul(evaluate_at(t_poly_parts[i], z), current)),
                      FrMul(current, z), i + 1)
    IN fold(0, 1, 1)

\* sum_i t_i(z) * z^(n*i) over the quotient chunks
QuotientAtZ(t_poly_parts, z, required_domain_size) ==
    LET z_in_domain_size == FrPow(z, required_domain_size)
        RECURSIVE fold(_, _, _)
        fold(result, current, i) ==
            IF i > Len(t_poly_parts) THEN result
            ELSE fold(FrAdd(result, FrMul(evaluate_at(t_poly_parts[i], z), current)),
                      FrMul(current, z_in_domain_size), i + 1)
    IN fold(0, 1, 1)

\* LinearizationZFactor with the non-residues left out of the product
LinearizationZFactor_NoShifts(wire_values_at_z, non_residues, alpha, beta, gamma, z) ==
    LET RECURSIVE fold(_, _)
        fold(factor, i) ==
            IF i > Len(wire_values_at_z) THEN factor
            ELSE fold(FrMul(factor,
                        FrAdd(FrAdd(FrMul(z, beta), wire_values_at_z[i]), gamma)),
                      i + 1)
    IN fold(alpha, 1)

\* alpha * prod over zip(wire_values_at_z, 1 :: non_residues) of
\* (z * non_residue * beta + wire_at_z + gamma)
LinearizationZFactor(wire_values_at_z, non_residues, alpha, beta, gamma, z) ==
    LET shifts == <<1>> \o non_residues
        RECURSIVE fold(_, _)
        fold(factor, i) ==
            IF i > Len(wire_values_at_z) \/ i > Len(shifts) THEN factor
            ELSE fold(FrMul(factor,
                        FrAdd(FrAdd(FrMul(FrMul(z, shifts[i]), beta),
                                    wire_values_at_z[i]), gamma)), i + 1)
    IN fold(alpha, 1)

\* start * prod over zip(wire_values_at_z, permutation_polynomials_at_z) of
\* (perm_at_z * beta + wire_at_z + gamma)
PermutationProductAtZ(start, wire_values_at_z, permutation_polynomials_at_z, beta, gamma) ==
    LET RECURSIVE fold(_, _)
        fold(factor, i) ==
            IF i > Len(wire_values_at_z) \/ i > Len(permutation_polynomials_at_z)
            THEN factor
            ELSE fold(FrMul(factor,
                        FrAdd(FrAdd(FrMul(permutation_polynomials_at_z[i], beta),
                                    wire_values_at_z[i]), gamma)), i + 1)
    IN fold(start, 1)

\* the linearization polynomial r(X), given L_0(z)
LinearizationPolynomial(setup, wire_values_at_z, wire_values_at_z_omega, permutation_polynomials_at_z, z_in_monomial_form, z_at_z_omega, non_residues, l_0_at_z, alpha, beta, gamma, z) ==
    LET r_a == add_assign_scaled(setup.selector_polynomials[6],
                                 setup.selector_polynomials[1], wire_values_at_z[1])
        r_b == add_assign_scaled(r_a, setup.selector_polynomials[2],
                                 wire_values_at_z[2])
        r_c == add_assign_scaled(r_b, setup.selector_polynomials[3],
                                 wire_values_at_z[3])
        r_d == add_assign_scaled(r_c, setup.selector_polynomials[4],
                                 wire_values_at_z[4])
        r_m == add_assign_scaled(r_d, setup.selector_polynomials[5],
                                 FrMul(wire_values_at_z[1], wire_values_at_z[2]))
        r_dnext == add_assign_scaled(r_m, setup.next_step_selector_polynomials[1],
                                     wire_values_at_z_omega[1])
        challenge_1 == FrMul(1, alpha)
        r_z == add_assign_scaled(r_dnext, z_in_monomial_form,
                   LinearizationZFactor(wire_values_at_z, non_residues,
                                        challenge_1, beta, gamma, z))
        r_perm == sub_assign_scaled(r_z,
                      setup.permutation_polynomials[Len(setup.permutation_polynomials)],
                      PermutationProductAtZ(
                          FrMul(FrMul(challenge_1, beta), z_at_z_omega),
                          wire_values_at_z, permutation_polynomials_at_z,
                          beta, gamma))
        challenge_2 == FrMul(challenge_1, alpha)
    IN add_assign_scaled(r_perm, z_in_monomial_form, FrMul(l_0_at_z, challenge_2))

\* SelfCheckLhs without the vanishing polynomial
SelfCheckLhs_NoVanishing(t_at_z, z, required_domain_size) == t_at_z

\* lhs of the self-check: t(z) * Z_H(z)
SelfCheckLhs(t_at_z, z, required_domain_size) ==
    FrMul(t_at_z, evaluate_vanishing_for_size(z, required_domain_size))

\* sum over the public inputs of L_idx(z) * input, or the first error
PublicInputsAtZ(input_values, required_domain_size, z) ==
    LET terms == [i \in 1..Len(input_values) |->
                     evaluate_lagrange_poly_at_point(i - 1, required_domain_size, z)]
        RECURSIVE fold(_, _)
        fold(acc, i) ==
            IF i > Len(input_values) THEN acc
            ELSE fold(FrAdd(acc, FrMul(terms[i].val, input_values[i])), i + 1)
    IN IF \E i \in 1..Len(input_values) : ~terms[i].ok
       THEN Err("DivisionByZero")
       ELSE Ok(fold(0, 1))

\* SelfCheckRhs with the alpha^2 * L_0(z) term added instead of subtracted
SelfCheckRhs_L0Added(r_at_z, inputs_at_z, wire_values_at_z, permutation_polynomials_at_z, z_at_z_omega, l_0_at_z, alpha, beta, gamma) ==
    LET with_inputs == FrAdd(r_at_z, inputs_at_z)
        z_part_0 == PermutationProductAtZ(z_at_z_omega, wire_values_at_z,
                                          permutation_polynomials_at_z, beta, gamma)
        z_part_1 == FrMul(z_part_0,
                          FrAdd(gamma, wire_values_at_z[Len(wire_values_at_z)]))
        z_part == FrMul(z_part_1, alpha)
    IN FrAdd(FrSub(with_inputs, z_part), FrMul(l_0_at_z, FrMul(alpha, alpha)))

\* rhs of the self-check, given the public-input contribution and L_0(z)
SelfCheckRhs(r_at_z, inputs_at_z, wire_values_at_z, permutation_polynomials_at_z, z_at_z_omega, l_0_at_z, alpha, beta, gamma) ==
    LET with_inputs == FrAdd(r_at_z, inputs_at_z)
        challenge_1 == FrMul(1, alpha)
        z_part_0 == PermutationProductAtZ(z_at_z_omega, wire_values_at_z,
                                          permutation_polynomials_at_z, beta, gamma)
        z_part_1 == FrMul(z_part_0,
                          FrAdd(gamma, wire_values_at_z[Len(wire_values_at_z)]))
        z_part == FrMul(z_part_1, challenge_1)
        challenge_2 == FrMul(challenge_1, alpha)
    IN FrSub(FrSub(with_inputs, z_part), FrMul(l_0_at_z, challenge_2))

\* SelfCheck with the comparison left out
SelfCheck_Skipped(lhs, rhs, result) == result

\* the comparison that ends round 4: Err(Unsatisfiable) when the two sides
\* differ, the round's result otherwise
SelfCheck(lhs, rhs, result) ==
    IF lhs # rhs THEN [ok |-> FALSE, err |-> "Unsatisfiable", lhs |-> lhs, rhs |-> rhs]
    ELSE result

\* FourthProverMessage with the quotient and the linearization evaluations
\* in each other's place
FourthProverMessage_Swapped(state) ==
    [ round |-> 4,
      wire_values_at_z |-> state.wire_values_at_z,
      wire_values_at_z_omega |-> state.wire_values_at_z_omega,
      permutation_polynomials_at_z |-> state.permutation_polynomials_at_z,
      grand_product_at_z_omega |-> state.grand_product_at_z_omega,
      quotient_polynomial_at_z |-> state.linearization_polynomial_at_z,
      linearization_polynomial_at_z |-> state.quotient_polynomial_at_z ]

\* the fourth message: the evaluations of the fourth state, cloned
FourthProverMessage(state) ==
    [ round |-> 4,
      wire_values_at_z |-> state.wire_values_at_z,
      wire_values_at_z_omega |-> state.wire_values_at_z_omega,
      permutation_polynomials_at_z |-> state.permutation_polynomials_at_z,
      grand_product_at_z_omega |-> state.grand_product_at_z_omega,
      quotient_polynomial_at_z |-> state.quotient_polynomial_at_z,
      linearization_polynomial_at_z |-> state.linearization_polynomial_at_z ]

fourth_step_from_third_step(third_state, third_verifier_message, setup) ==
    LET alpha == third_verifier_message.alpha
        beta == third_verifier_message.beta
        gamma == third_verifier_message.gamma
        z == third_verifier_message.z
        required_domain_size == third_state.required_domain_size
        z_by_omega == FrMul(z, DomainGenerator(required_domain_size))
        wire_values_at_z ==
            [i \in 1..Len(third_state.witness_polys_as_coeffs) |->
                evaluate_at(third_state.witness_polys_as_coeffs[i], z)]
        wire_values_at_z_omega ==
            IF Len(third_state.witness_polys_as_coeffs) >= 4
            THEN << evaluate_at(third_state.witness_polys_as_coeffs[4], z_by_omega) >>
            ELSE <<>>
        permutation_polynomials_at_z ==
            [i \in 1..(Len(setup.permutation_polynomials) - 1) |->
                evaluate_at(setup.permutation_polynomials[i], z)]
        z_at_z_omega == evaluate_at(third_state.z_in_monomial_form, z_by_omega)
        t_at_z == QuotientAtZ(third_state.t_poly_parts, z, required_domain_size)
        l_0_at_z == evaluate_l0_at_point(required_domain_size, z)
    IN IF Len(wire_values_at_z) < 4 THEN Panic
       ELSE IF ~l_0_at_z.ok THEN l_0_at_z
       ELSE
       LET r == LinearizationPolynomial(setup, wire_values_at_z,
                    wire_values_at_z_omega, permutation_polynomials_at_z,
                    third_state.z_in_monomial_form, z_at_z_omega,
                    third_state.non_residues, l_0_at_z.val, alpha, beta, gamma, z)
           r_at_z == evaluate_at(r, z)
           lhs == SelfCheckLhs(t_at_z, z, required_domain_size)
           inputs_at_z == PublicInputsAtZ(third_state.input_values,
                                          required_domain_size, z)
       IN IF ~inputs_at_z.ok THEN inputs_at_z
          ELSE IF Len(permutation_polynomials_at_z) + 1 # Len(wire_values_at_z)
          THEN Panic
          ELSE
          LET rhs == SelfCheckRhs(r_at_z, inputs_at_z.val, wire_values_at_z,
                                  permutation_polynomials_at_z, z_at_z_omega,
                                  l_0_at_z.val, alpha, beta, gamma)
              state ==
                  [ round |-> 4,
                    required_domain_size |-> required_domain_size,
                    non_residues |-> third_state.non_residues,
                    input_values |-> third_state.input_values,
                    witness_polys_as_coeffs |-> third_state.witness_polys_as_coeffs,
                    z_in_monomial_form |-> third_state.z_in_monomial_form,
                    t_poly_parts |-> third_state.t_poly_parts,
                    linearization_polynomial |-> r,
                    wire_values_at_z |-> wire_values_at_z,
                    wire_values_at_z_omega |-> wire_values_at_z_omega,
                    permutation_polynomials_at_z |-> permutation_polynomials_at_z,
                    grand_product_at_z_omega |-> z_at_z_omega,
                    quotient_polynomial_at_z |-> t_at_z,
                    linearization_polynomial_at_z |-> r_at_z ]
          IN SelfCheck(lhs, rhs,
                  Ok([ state |-> state,
                       message |-> FourthProverMessage(state),
                       lhs |-> lhs,
                       rhs |-> rhs ]))

(***************************************************************************)
(* Round 5: the opening proofs.                                            *)
(***************************************************************************)
\* t_0 + sum_{i >= 1} z^(n*i) * t_i(X)
RecombinedQuotient(t_poly_parts, z, required_domain_size) ==
    LET z_in_domain_size == FrPow(z, required_domain_size)
        RECURSIVE fold(_, _, _)
        fold(acc, power_of_z, i) ==
            IF i > Len(t_poly_parts) THEN acc
            ELSE fold(add_assign_scaled(acc, t_poly_parts[i], power_of_z),
                      FrMul(power_of_z, z_in_domain_size), i + 1)
    IN fold(t_poly_parts[1], z_in_domain_size, 2)

\* AddScaledByPowers that weights every polynomial with the same power
AddScaledByPowers_OnePower(acc, polys, challenge, v) ==
    LET RECURSIVE fold(_, _, _)
        fold(a, ch, i) ==
            IF i > Len(polys) THEN [poly |-> a, challenge |-> FrMul(ch, FrPow(v, Len(polys)))]
            ELSE fold(add_assign_scaled(a, polys[i], FrMul(ch, v)), ch, i + 1)
    IN fold(acc, challenge, 1)

\* acc + sum_i challenge * v^i * polys[i], with the challenge after the loop
AddScaledByPowers(acc, polys, challenge, v) ==
    LET RECURSIVE fold(_, _, _)
        fold(a, ch, i) ==
            IF i > Len(polys) THEN [poly |-> a, challenge |-> ch]
            ELSE fold(add_assign_scaled(a, polys[i], FrMul(ch, v)),
                      FrMul(ch, v), i + 1)
    IN fold(acc, challenge, 1)

\* DivideInChunks with every division at the point of the first aggregate
DivideInChunks_AtFirstPoint(polys, chunk) ==
    [i \in 1..Len(polys) |->
        IF (i - 1) % chunk = 0
        THEN [poly |-> divide_single(polys[i].poly, polys[1].at), at |-> polys[i].at]
        ELSE polys[i]]

\* the two divisions under worker.scope(2, ..): the closure of each chunk
\* divides the first element of its chunk
DivideInChunks(polys, chunk) ==
    [i \in 1..Len(polys) |->
        IF (i - 1) % chunk = 0
        THEN [poly |-> divide_single(polys[i].poly, polys[i].at), at |-> polys[i].at]
        ELSE polys[i]]

fifth_step_from_fourth_step(fourth_state, fourth_verifier_message, setup, crs_mons, chunk) ==
    LET z == fourth_verifier_message.z
        v == fourth_verifier_message.v
        required_domain_size == fourth_state.required_domain_size
        z_by_omega == FrMul(z, DomainGenerator(required_domain_size))
    IN IF Len(fourth_state.t_poly_parts) = 0 THEN Panic
       ELSE IF Len(fourth_state.witness_polys_as_coeffs) < 4 THEN Panic
       ELSE
       LET quotient == RecombinedQuotient(fourth_state.t_poly_parts, z,
                                          required_domain_size)
           challenge_1 == FrMul(1, v)
           with_linearization ==
               add_assign_scaled(quotient, fourth_state.linearization_polynomial,
                                 challenge_1)
           with_witness ==
               AddScaledByPowers(with_linearization,
                                 fourth_state.witness_polys_as_coeffs, challenge_1, v)
           with_perms ==
               AddScaledByPowers(with_witness.poly,
                   SubSeq(setup.permutation_polynomials, 1,
                          Len(setup.permutation_polynomials) - 1),
                   with_witness.challenge, v)
           poly_to_divide_at_z == with_perms.poly
           challenge_z == FrMul(with_perms.challenge, v)
           challenge_d == FrMul(challenge_z, v)
           poly_to_divide_at_z_omega ==
               add_assign_scaled(scale(fourth_state.z_in_monomial_form, challenge_z),
                                 fourth_state.witness_polys_as_coeffs[4], challenge_d)
           polys == DivideInChunks(
                        << [poly |-> poly_to_divide_at_z, at |-> z],
                           [poly |-> poly_to_divide_at_z_omega, at |-> z_by_omega] >>,
                        chunk)
           opening_at_z == commit_using_monomials(polys[1].poly, crs_mons)
           opening_at_z_omega == commit_using_monomials(polys[2].poly, crs_mons)
       IN IF ~opening_at_z.ok THEN opening_at_z
          ELSE IF ~opening_at_z_omega.ok THEN opening_at_z_omega
          ELSE Ok([ message |->
                       [ round |-> 5,
                         opening_proof_at_z |-> opening_at_z.val,
                         opening_proof_at_z_omega |-> opening_at_z_omega.val ],
                    multiopening_challenge |-> challenge_d,
                    asserted |-> << challenge_1, with_witness.challenge,
                                    with_perms.challenge, challenge_d >>,
                    dividends |-> << poly_to_divide_at_z, poly_to_divide_at_z_omega >>,
                    quotients |-> << polys[1].poly, polys[2].poly >> ])

(***************************************************************************)
(* Accelerator handles.  LockedMultiFFTKernel and LockedMultiexpKernel     *)
(* values are locals of a round (`fft_kern`, `multiexp_kern`), passed on   *)
(* by &mut only; a handle is released when it is dropped.                  *)
(***************************************************************************)
\* no round has run yet
NoKernels == [acquired |-> {}, live_at_exit |-> {}, held |-> {}, events |-> <<>>]

\* the handles a round created before it left
AcquiredKernels(k, taken, res, info) ==
    CASE k = 1 ->
           \* the Lagrange variant commits with &mut None; the monomial variant
           \* asserts before it creates fft_kern and then multiexp_kern
           IF info.variant = "lagrange" THEN {}
           ELSE IF ~taken.is_finalized \/ ~IsPowerOfTwo(taken.n + 1) THEN {}
           ELSE {"fft_kern", "multiexp_kern"}
      [] k = 2 ->
           \* assert_eq on the 4 wire values, fft_kern, batch_inversion?, the two
           \* assertions on z, drop(fft_kern), multiexp_kern
           IF Len(taken.witness_polys_unpadded_values) # 4 THEN {}
           ELSE IF res.ok THEN {"fft_kern", "multiexp_kern"}
           ELSE IF res.err \in {"DivisionByZero", "unreachable"} THEN {"fft_kern"}
           ELSE {"fft_kern", "multiexp_kern"}
      [] k = 3 ->
           \* fft_kern first; multiexp_kern after drop(fft_kern) and
           \* break_into_multiples?
           IF res.ok THEN {"fft_kern", "multiexp_kern"}
           ELSE {"fft_kern"}
      [] k = 4 -> {}
      [] k = 5 ->
           \* multiexp_kern after the divisions
           IF Len(taken.t_poly_parts) = 0 \/ Len(taken.witness_polys_as_coeffs) < 4
           THEN {}
           ELSE {"multiexp_kern"}

\* the handles not yet dropped where the round left: none after the
\* drop(fft_kern) and drop(multiexp_kern) that precede Ok, the last one
\* created when the round left early
LiveKernelsAtExit(k, taken, res, info) ==
    IF res.ok THEN {}
    ELSE LET acquired == AcquiredKernels(k, taken, res, info)
         IN IF "multiexp_kern" \in acquired THEN {"multiexp_kern"} ELSE acquired

\* ScopeExit that forgets the locals instead of dropping them
ScopeExit_Leak(live) == live

\* leaving the frame of the round, by return, by ? or by unwinding, drops
\* the locals that are still live
ScopeExit(live) == {}

\* KernelEvents with fft_kern dropped only after the commitments
KernelEvents_FftHeldAcrossCommit(k, taken, res, info) ==
    LET acquired == AcquiredKernels(k, taken, res, info)
    IN IF acquired = {"fft_kern", "multiexp_kern"}
       THEN << <<"new", "fft_kern">>, <<"new", "multiexp_kern">>,
               <<"drop", "multiexp_kern">>, <<"drop", "fft_kern">> >>
       ELSE IF acquired = {} THEN <<>>
       ELSE LET h == CHOOSE x \in acquired : TRUE
            IN << <<"new", h>>, <<"drop", h>> >>

\* the creations and drops of handles in one invocation, in program order:
\* wherever a round creates both, `let mut multiexp_kern = Some(..)` follows
\* drop(fft_kern); a handle live where the round leaves is dropped there
KernelEvents(k, taken, res, info) ==
    LET acquired == AcquiredKernels(k, taken, res, info)
        of(h) == IF h \in acquired THEN << <<"new", h>>, <<"drop", h>> >> ELSE <<>>
    IN of("fft_kern") \o of("multiexp_kern")

KernelsOf(k, taken, res, info) ==
    LET live == LiveKernelsAtExit(k, taken, res, info)
    IN [ acquired |-> AcquiredKernels(k, taken, res, info),
         live_at_exit |-> live,
         held |-> ScopeExit(live),
         events |-> KernelEvents(k, taken, res, info) ]

(***************************************************************************)
(* The run of one proof.                                                   *)
(***************************************************************************)
VARIABLES
    assembly,               \* Some(ProverAssembly4WithNextStep) until round 1 takes it
    setup,                  \* &SetupPolynomials
    setup_precomputations,  \* &Option<&SetupPolynomialsPrecomputations>
    crs_mons,               \* &Crs<E, CrsForMonomialForm>
    crs_vals,               \* &Crs<E, CrsForLagrangeForm>
    prover_state,           \* the round state the caller holds
    prover_messages,        \* the prover messages returned so far
    verifier_messages,      \* the verifier messages passed so far
    trace,                  \* history: one entry per invocation of a round
    initial_assembly,       \* history: the assembly the run started from
    consumed,               \* history: the value the last invocation took
    kernels,                \* the accelerator handles of the last invocation
    scatter                 \* one run of the scattered copy of the resolver

run == << assembly, setup, setup_precomputations, crs_mons, crs_vals, prover_state,
          prover_messages, verifier_messages, trace, initial_assembly, consumed,
          kernels >>

vars == << run, scatter >>

environment == << setup, setup_precomputations, crs_mons, crs_vals, initial_assembly >>

\* the caller holds no round state
NoState == [round |-> 0]

\* no scattered copy is being followed
NoScatter == [stage |-> "idle"]

\* MoveOut with the state passed by reference: the caller keeps it
MoveOut_Borrowed(held) == held

\* what is left in the caller's binding after a value was passed by value
MoveOut(held) == NoState

(***************************************************************************)
(* Bounds of the model.                                                    *)
(***************************************************************************)
\* alpha, beta, gamma and v range over 0..MaxChallenge
MaxChallenge == 2

Challenges == 0..MaxChallenge

\* z ranges over 0..MaxPoint: 1 is the first point of the domain, 5 lies on
\* the coset of size 4n the quotient is computed on, the others lie on neither
MaxPoint == 5

EvaluationPoints == 0..MaxPoint

\* chunk sizes Worker::scope hands out for 2 elements
ChunkSizes == {1, 2}

\* what the last slot of the four set_len buffers of round 1 may hold
UninitializedTails == { <<0, 0, 0, 0>>, <<1, 2, 3, 4>> }

Circuits == {"mul", "big"}

\* the setup of every circuit
Setups == [id \in Circuits |-> SetupPolynomials(id)]

\* the precomputation cache of every circuit
Precomputations == [id \in Circuits |-> SetupPolynomialsPrecomputations(Setups[id])]

\* the cells of a circuit whose mutation is tried
MutationCells(id) ==
    IF id = "mul" THEN { <<2, 0>>, <<3, 0>> }
    ELSE { <<1, 1>>, <<2, 0>>, <<0, 0>> }

Assembly(id, wires, finalized) ==
    [ n |-> Len(wires[1]),
      num_inputs |-> CircuitNumInputs(id),
      input_assingments |-> HonestInputs(id),
      is_finalized |-> finalized,
      wires |-> wires ]

\* the assemblies a run may start from: the satisfied one, the satisfied one
\* with one witness value changed, an unfinalized one, and one whose n + 1
\* is no power of two
Assemblies(id) ==
    { Assembly(id, HonestWires(id), TRUE) }
    \cup { Assembly(id, MutateWires(HonestWires(id), cell[1], cell[2], 1), TRUE) :
             cell \in MutationCells(id) }
    \cup { Assembly(id, HonestWires(id), FALSE) }
    \cup { Assembly(id, [c \in 1..STATE_WIDTH |-> HonestWires(id)[c] \o <<0>>], TRUE) }

Init ==
    \E id \in Circuits :
      \E asm \in Assemblies(id), cached \in BOOLEAN :
        /\ assembly = Some(asm)
        /\ initial_assembly = asm
        /\ setup = Setups[id]
        /\ setup_precomputations = IF cached THEN Some(Precomputations[id]) ELSE None
        /\ crs_mons = Crs_monomial(Len(CircuitRows(id)))
        /\ crs_vals = Crs_lagrange(Len(CircuitRows(id)))
        /\ prover_state = NoState
        /\ prover_messages = <<>>
        /\ verifier_messages = <<>>
        /\ trace = <<>>
        /\ consumed = NoState
        /\ kernels = NoKernels
        /\ scatter = NoScatter

\* the result of an invocation as recorded in the history
ResultKind(res) == IF res.ok THEN "Ok" ELSE res.err

\* Return with an error that hands the taken state back to the caller
Return_StateBackOnError(k, taken, message, res, info) ==
    /\ prover_state' = IF res.ok /\ k < 5 THEN res.val.state
                       ELSE IF res.ok THEN MoveOut(prover_state)
                       ELSE prover_state
    /\ prover_messages' = IF res.ok THEN Append(prover_messages, res.val.message)
                          ELSE prover_messages
    /\ verifier_messages' = IF k = 1 THEN verifier_messages
                            ELSE Append(verifier_messages, message)
    /\ trace' = Append(trace, [round |-> k, result |-> ResultKind(res), info |-> info])
    /\ consumed' = taken
    /\ kernels' = KernelsOf(k, taken, res, info)
    /\ UNCHANGED << environment, scatter >>

\* Return of a round that empties the caller's cache
Return_CacheDropped(k, taken, message, res, info) ==
    /\ prover_state' = IF res.ok /\ k < 5 THEN res.val.state ELSE MoveOut(prover_state)
    /\ prover_messages' = IF res.ok THEN Append(prover_messages, res.val.message)
                          ELSE prover_messages
    /\ verifier_messages' = IF k = 1 THEN verifier_messages
                            ELSE Append(verifier_messages, message)
    /\ trace' = Append(trace, [round |-> k, result |-> ResultKind(res), info |-> info])
    /\ consumed' = taken
    /\ kernels' = KernelsOf(k, taken, res, info)
    /\ setup_precomputations' = None
    /\ UNCHANGED << setup, crs_mons, crs_vals, initial_assembly, scatter >>

\* the effect of one invocation of round k that took `taken` and `message`
\* and returned `res`
Return(k, taken, message, res, info) ==
    /\ prover_state' = IF res.ok /\ k < 5 THEN res.val.state ELSE MoveOut(prover_state)
    /\ prover_messages' = IF res.ok THEN Append(prover_messages, res.val.message)
                          ELSE prover_messages
    /\ verifier_messages' = IF k = 1 THEN verifier_messages
                            ELSE Append(verifier_messages, message)
    /\ trace' = Append(trace, [round |-> k, result |-> ResultKind(res), info |-> info])
    /\ consumed' = taken
    /\ kernels' = KernelsOf(k, taken, res, info)
    /\ UNCHANGED << environment, scatter >>

FirstStepLagrange ==
    /\ assembly.some
    /\ LET res == first_step_with_lagrange_form_key(assembly.val, crs_vals)
       IN /\ assembly' = None
          /\ Return(1, assembly.val, None, res, [variant |-> "lagrange"])

FirstStepMonomial ==
    /\ assembly.some
    /\ \E uninitialized \in UninitializedTails :
         LET res == first_step_with_monomial_form_key(assembly.val, crs_mons,
                                                      uninitialized)
         IN /\ assembly' = None
            /\ Return(1, assembly.val, None, res,
                      [variant |-> "monomial", uninitialized |-> uninitialized])

SecondStep ==
    /\ prover_state.round = 1
    /\ \E b \in Challenges, g \in Challenges :
         LET message == [beta |-> b, gamma |-> g]
             res == second_step_from_first_step(prover_state, message, setup,
                                                crs_mons, setup_precomputations)
         IN /\ Return(2, prover_state, message, res,
                      [resolved |-> IF res.ok THEN res.val.resolved ELSE <<>>])
            /\ UNCHANGED assembly

ThirdStep ==
    /\ prover_state.round = 2
    /\ \E a \in Challenges :
         LET previous == verifier_messages[Len(verifier_messages)]
             message == [alpha |-> a, beta |-> previous.beta, gamma |-> previous.gamma]
             res == third_step_from_second_step(prover_state, message, setup,
                                                crs_mons, setup_precomputations)
         IN /\ Return(3, prover_state, message, res,
                      [resolved |-> IF res.ok THEN res.val.resolved ELSE <<>>])
            /\ UNCHANGED assembly

FourthStep ==
    /\ prover_state.round = 3
    /\ \E pt \in EvaluationPoints :
         LET previous == verifier_messages[Len(verifier_messages)]
             message == [alpha |-> previous.alpha, beta |-> previous.beta,
                         gamma |-> previous.gamma, z |-> pt]
             res == fourth_step_from_third_step(prover_state, message, setup)
         IN /\ Return(4, prover_state, message, res,
                      IF res.ok
                      THEN [checked |-> TRUE, lhs |-> res.val.lhs, rhs |-> res.val.rhs]
                      ELSE IF res.err = "Unsatisfiable"
                      THEN [checked |-> TRUE, lhs |-> res.lhs, rhs |-> res.rhs]
                      ELSE [checked |-> FALSE])
            /\ UNCHANGED assembly

FifthStep ==
    /\ prover_state.round = 4
    /\ \E c \in Challenges, chunk \in ChunkSizes :
         LET previous == verifier_messages[Len(verifier_messages)]
             message == [alpha |-> previous.alpha, beta |-> previous.beta,
                         gamma |-> previous.gamma, z |-> previous.z, v |-> c]
             res == fifth_step_from_fourth_step(prover_state, message, setup,
                                                crs_mons, chunk)
         IN /\ Return(5, prover_state, message, res,
                      IF res.ok
                      THEN [chunk |-> chunk, dividends |-> res.val.dividends,
                            quotients |-> res.val.quotients,
                            asserted |-> res.val.asserted]
                      ELSE [chunk |-> chunk])
            /\ UNCHANGED assembly

Next ==
    \/ FirstStepLagrange
    \/ FirstStepMonomial
    \/ SecondStep
    \/ ThirdStep
    \/ FourthStep
    \/ FifthStep

Spec == Init /\ [][Next]_vars
(***************************************************************************)
(* The scattered copy of get_precomputed_x_lde and                         *)
(* get_precomputed_inverse_divisor, task by task, and the un-bitreversal   *)
(* of round 3 applied to the array it leaves.                              *)
(***************************************************************************)
\* the domain sizes the copy is followed for
ScatterDomainSizes == {1, 2, 4, 8}

\* the most tasks a worker scope spawns
MaxTasks == 4

\* the chunk sizes a scope over new_size elements may be handed
ScatterChunks(new_size) ==
    {c \in 1..new_size : (new_size + c - 1) \div c <= MaxTasks}

\* the source array of the copy, in natural order
ScatterSource(function, domain_size) ==
    LET new_size == domain_size * LDE_FACTOR
    IN IF function = "get_precomputed_x_lde"
       THEN distribute_powers([i \in 1..new_size |-> multiplicative_generator],
                              DomainGenerator(new_size))
       ELSE batch_inversion(evaluate_vanishing_polynomial_of_degree_on_domain_size(
                                domain_size, multiplicative_generator, new_size)).val

\* the length of chunk i (from 0) of coeffs.chunks(chunk)
TaskLen(sc, i) ==
    IF (i + 1) * sc.chunk <= Len(sc.coeffs) THEN sc.chunk
    ELSE Len(sc.coeffs) - i * sc.chunk

InitScatter ==
    /\ assembly = None
    /\ initial_assembly = Assembly("mul", HonestWires("mul"), TRUE)
    /\ setup = Setups["mul"]
    /\ setup_precomputations = None
    /\ crs_mons = Crs_monomial(Len(CircuitRows("mul")))
    /\ crs_vals = Crs_lagrange(Len(CircuitRows("mul")))
    /\ prover_state = NoState
    /\ prover_messages = <<>>
    /\ verifier_messages = <<>>
    /\ trace = <<>>
    /\ consumed = NoState
    /\ kernels = NoKernels
    /\ \E function \in {"get_precomputed_x_lde", "get_precomputed_inverse_divisor"} :
         \E domain_size \in ScatterDomainSizes :
           \E chunk \in ScatterChunks(domain_size * LDE_FACTOR) :
             LET new_size == domain_size * LDE_FACTOR
             IN scatter =
                  [ stage |-> "scope",
                    function |-> function,
                    domain_size |-> domain_size,
                    chunk |-> chunk,
                    coeffs |-> ScatterSource(function, domain_size),
                    result |-> [s \in 1..new_size |-> Uninit],
                    writes |-> [s \in 1..new_size |-> 0],
                    done |-> [i \in 1..((new_size + chunk - 1) \div chunk) |-> 0],
                    block |-> 0 ]

\* one iteration of the loop of one spawned task: r[dst_index] = *vi
ScatterWrite ==
    /\ scatter.stage = "scope"
    /\ \E i \in 1..Len(scatter.done) :
         /\ scatter.done[i] < TaskLen(scatter, i - 1)
         /\ LET index == (i - 1) * scatter.chunk + scatter.done[i]
                dst_index == DstIndex(index, log2_floor(scatter.domain_size))
            IN scatter' = [scatter EXCEPT !.result[dst_index + 1] = scatter.coeffs[index + 1],
                                          !.writes[dst_index + 1] = @ + 1,
                                          !.done[i] = @ + 1]
    /\ UNCHANGED run

\* the scope ends when every task has finished; the buffer becomes the polynomial
ScopeEnd ==
    /\ scatter.stage = "scope"
    /\ \A i \in 1..Len(scatter.done) : scatter.done[i] = TaskLen(scatter, i - 1)
    /\ scatter' = [scatter EXCEPT !.stage = "bitreversed"]
    /\ UNCHANGED run

\* one pass of the loop of round 3 over the LDE_FACTOR blocks
BitreverseBlock ==
    /\ scatter.stage = "bitreversed"
    /\ scatter.block < LDE_FACTOR
    /\ scatter' = [scatter EXCEPT
                      !.result = bitreverse_enumeration_partial(
                                     scatter.result, scatter.block * scatter.domain_size,
                                     scatter.domain_size),
                      !.block = @ + 1]
    /\ UNCHANGED run

\* the bit-reversal of the whole array that follows the loop
BitreverseWhole ==
    /\ scatter.stage = "bitreversed"
    /\ scatter.block = LDE_FACTOR
    /\ scatter' = [scatter EXCEPT !.result = bitreverse_enumeration(scatter.result),
                                  !.stage = "natural"]
    /\ UNCHANGED run

NextScatter ==
    \/ ScatterWrite
    \/ ScopeEnd
    \/ BitreverseBlock
    \/ BitreverseWhole

SpecScatter == InitScatter /\ [][NextScatter]_vars

(***************************************************************************)
(* What the claims speak about.                                            *)
(***************************************************************************)
\* the circuit the setup of this run was made for
CircuitOf(su) == CHOOSE id \in Circuits : Setups[id] = su

\* the value of cell <<col, row>> of an assembly, rows from n on being padding
CellValue(asm, col, row) ==
    IF row < Len(asm.wires[col + 1]) THEN asm.wires[col + 1][row + 1] ELSE 0

\* the assembly satisfies every gate of the circuit
GatesSatisfied(id, asm) ==
    LET rows == CircuitRows(id)
        dsize == Len(rows)
    IN \A r \in 0..(dsize - 1) :
         LET q == rows[r + 1]
             a == CellValue(asm, 0, r)
             b == CellValue(asm, 1, r)
             c == CellValue(asm, 2, r)
             d == CellValue(asm, 3, r)
             d_next == CellValue(asm, 3, (r + 1) % dsize)
             input == IF r < Len(asm.input_assingments)
                      THEN asm.input_assingments[r + 1] ELSE 0
         IN (q[1] * a + q[2] * b + q[3] * c + q[4] * d + q[5] * a * b + q[6]
             + q[7] * d_next + input) % P = 0

\* the assembly satisfies the copy permutation of the circuit
CopiesSatisfied(id, asm) ==
    \A col \in 0..(STATE_WIDTH - 1), row \in 0..(Len(CircuitRows(id)) - 1) :
        LET img == PermutedCell(id, <<col, row>>)
        IN CellValue(asm, col, row) = CellValue(asm, img[1], img[2])

\* a finalized assignment that satisfies all gates and the copy permutation
HonestAssembly(su, asm) ==
    /\ asm.is_finalized
    /\ asm.n = su.n
    /\ GatesSatisfied(CircuitOf(su), asm)
    /\ CopiesSatisfied(CircuitOf(su), asm)

\* a satisfied assignment of the circuit with exactly one witness value changed
MutatedAssembly(su, asm) ==
    /\ asm.is_finalized
    /\ asm.n = su.n
    /\ \E col \in 1..STATE_WIDTH, row \in 1..asm.n :
         /\ asm.wires[col][row] # HonestWires(CircuitOf(su))[col][row]
         /\ \A c \in 1..STATE_WIDTH, r \in 1..asm.n :
              <<c, r>> # <<col, row>>
                 => asm.wires[c][r] = HonestWires(CircuitOf(su))[c][r]

\* the invocation of round k recorded in the history, if any
InvocationsOf(k) == {i \in 1..Len(trace) : trace[i].round = k}

\* the verifier message round k was invoked with (rounds 2..5)
MessageOf(i) == verifier_messages[i - 1]

(***************************************************************************)
(* C1, C4, C5: the order of the rounds and the effect of a failure.        *)
(***************************************************************************)
\* C1: the rounds of one proof are invoked in the order 1,2,3,4,5 without
\* replay or skip; round k+1 is invoked only after a successful round k and
\* takes the state that round returned; the caller holds a round state only
\* right after the round that returned it, so each is taken exactly once.
C1_RoundsRunInOrder ==
    /\ \A i \in 1..Len(trace) : trace[i].round = i
    /\ \A i \in 1..(Len(trace) - 1) : trace[i].result = "Ok"
    /\ Len(trace) >= 2 => consumed.round = Len(trace) - 1
    /\ prover_state.round \in {0, Len(trace)}
    /\ prover_state.round # 0 =>
          trace[Len(trace)].result = "Ok" /\ Len(trace) < 5
    /\ assembly.some <=> trace = <<>>

\* a run in which all five rounds succeeded
C1_Witness ==
    /\ Len(trace) = 5
    /\ trace[5].result = "Ok"
    /\ Len(prover_messages) = 5
    /\ prover_state = NoState

\* C4: when the two sides of the round-4 identity differ, round 4 returns
\* Err(Unsatisfiable), no fourth state and no fourth message, round 5 is never
\* invoked and no opening commitments exist.
C4_MismatchIsUnsatisfiable ==
    \A i \in InvocationsOf(4) :
        (trace[i].info.checked /\ trace[i].info.lhs # trace[i].info.rhs) =>
            /\ trace[i].result = "Unsatisfiable"
            /\ prover_state = NoState
            /\ Len(prover_messages) = 3
            /\ \A m \in 1..Len(prover_messages) : prover_messages[m].round < 4
            /\ InvocationsOf(5) = {}

\* round 4 compared two sides that differ
C4_Witness ==
    \E i \in InvocationsOf(4) :
        /\ trace[i].info.checked
        /\ trace[i].info.lhs # trace[i].info.rhs
        /\ trace[i].result = "Unsatisfiable"

\* C5: when a round returns an error or panics, it yields no state and no
\* message, what it took is gone, no later round is invoked and there is no
\* fifth message.
C5_ErrorAbortsRun ==
    \A i \in 1..Len(trace) :
        trace[i].result # "Ok" =>
            /\ i = Len(trace)
            /\ prover_state = NoState
            /\ assembly = None
            /\ Len(prover_messages) = i - 1
            /\ \A m \in 1..Len(prover_messages) : prover_messages[m].round < i

\* a round after the first returned an error
C5_Witness ==
    /\ Len(trace) >= 2
    /\ trace[Len(trace)].result \in {"DivisionByZero", "Unsatisfiable"}
    /\ consumed.round = Len(trace) - 1

(***************************************************************************)
(* C2, C3: what the round-4 self-check decides.                            *)
(***************************************************************************)
\* the points at which round 4 divides by zero before it compares: L_0 and
\* the Lagrange polynomials of the public inputs are evaluated as
\* (z^N - 1) / (N * (z - omega^idx))
DivisionByZeroPoints(su) ==
    {1} \cup {OmegaPow(su.n + 1, idx) : idx \in 0..(su.num_inputs - 1)}

\* the points of the coset round 3 computes the quotient on
QuotientCoset(su) ==
    {FrMul(multiplicative_generator, OmegaPow(LDE_FACTOR * (su.n + 1), j)) :
        j \in 0..(LDE_FACTOR * (su.n + 1) - 1)}

RECURSIVE Concatenation(_, _)
Concatenation(parts, i) ==
    IF i > Len(parts) THEN <<>> ELSE parts[i] \o Concatenation(parts, i + 1)

\* the quotient identity at z, from the polynomials of a round-3 state:
\* t(z) * Z_H(z) = PI(z) + q_const(z) + sum_k q_k(z) * w_k(z)
\*     + q_m(z) * a(z) * b(z) + q_dnext(z) * d(z * omega)
\*     + alpha * (Z(z) * prod_i (w_i(z) + beta * k_i * z + gamma)
\*                - Z(z * omega) * prod_i (w_i(z) + beta * sigma_i(z) + gamma))
\*     + alpha^2 * (Z(z) - 1) * L_0(z)
QuotientIdentityAt(third_state, message, su) ==
    LET z == message.z
        alpha == message.alpha
        beta == message.beta
        gamma == message.gamma
        dsize == third_state.required_domain_size
        z_omega == FrMul(z, DomainGenerator(dsize))
        w == [i \in 1..STATE_WIDTH |->
                 evaluate_at(third_state.witness_polys_as_coeffs[i], z)]
        q == [k \in 1..6 |-> evaluate_at(su.selector_polynomials[k], z)]
        sigma == [i \in 1..STATE_WIDTH |->
                     evaluate_at(su.permutation_polynomials[i], z)]
        inputs == evaluate_at(
                      ifft([i \in 1..dsize |->
                               IF i <= Len(third_state.input_values)
                               THEN third_state.input_values[i] ELSE 0]), z)
        gates ==
            FrAdd(FrAdd(FrAdd(inputs, q[6]),
                        FrAdd(FrAdd(FrMul(q[1], w[1]), FrMul(q[2], w[2])),
                              FrAdd(FrMul(q[3], w[3]), FrMul(q[4], w[4])))),
                  FrAdd(FrMul(q[5], FrMul(w[1], w[2])),
                        FrMul(evaluate_at(su.next_step_selector_polynomials[1], z),
                              evaluate_at(third_state.witness_polys_as_coeffs[4],
                                          z_omega))))
        identity[i \in 0..STATE_WIDTH] ==
            IF i = 0 THEN evaluate_at(third_state.z_in_monomial_form, z)
            ELSE FrMul(identity[i - 1],
                       FrAdd(FrAdd(w[i], gamma),
                             FrMul(beta, FrMul(CosetShift(i - 1), z))))
        permuted[i \in 0..STATE_WIDTH] ==
            IF i = 0 THEN evaluate_at(third_state.z_in_monomial_form, z_omega)
            ELSE FrMul(permuted[i - 1],
                       FrAdd(FrAdd(w[i], gamma), FrMul(beta, sigma[i])))
        first == FrMul(FrSub(evaluate_at(third_state.z_in_monomial_form, z), 1),
                       evaluate_at(calculate_lagrange_poly(dsize, 0), z))
        t == evaluate_at(Concatenation(third_state.t_poly_parts, 1), z)
    IN FrMul(t, FrSub(FrPow(z, dsize), 1))
       = FrAdd(gates,
               FrAdd(FrMul(alpha, FrSub(identity[STATE_WIDTH], permuted[STATE_WIDTH])),
                     FrMul(FrMul(alpha, alpha), first)))

\* C2 as stated: for an honest assignment round 4 returns Ok for every
\* challenge tuple it is invoked with.
C2_HonestAlwaysPasses ==
    \A i \in InvocationsOf(4) :
        HonestAssembly(setup, initial_assembly) => trace[i].result = "Ok"

\* C2 as amended: for an honest assignment round 4 finds lhs = rhs and
\* returns Ok for every challenge tuple whose z is not a point at which the
\* Lagrange evaluations divide by zero; at those points it returns
\* Err(DivisionByZero) without comparing.
C2_HonestPassesSelfCheck ==
    \A i \in InvocationsOf(4) :
        HonestAssembly(setup, initial_assembly) =>
            IF MessageOf(i).z \in DivisionByZeroPoints(setup)
            THEN trace[i].result = "DivisionByZero" /\ ~trace[i].info.checked
            ELSE /\ trace[i].result = "Ok"
                 /\ trace[i].info.checked
                 /\ trace[i].info.lhs = trace[i].info.rhs

\* round 4 passed an honest assignment at a point off the domain and off the
\* coset, with a permutation argument that is not void
C2_Witness ==
    \E i \in InvocationsOf(4) :
        /\ HonestAssembly(setup, initial_assembly)
        /\ CircuitOf(setup) = "big"
        /\ MessageOf(i).alpha # 0 /\ MessageOf(i).beta # 0 /\ MessageOf(i).gamma # 0
        /\ MessageOf(i).z \notin DivisionByZeroPoints(setup) \cup QuotientCoset(setup)
        /\ trace[i].result = "Ok"

\* C3 as stated: for an assignment with one witness value mutated round 4
\* returns Err(Unsatisfiable) for every challenge tuple it is invoked with.
C3_MutationAlwaysFails ==
    \A i \in InvocationsOf(4) :
        MutatedAssembly(setup, initial_assembly) => trace[i].result = "Unsatisfiable"

\* C3 as amended: for an assignment with one witness value mutated, at a z
\* where the Lagrange evaluations do not divide by zero, round 4 returns
\* Err(Unsatisfiable) exactly when the quotient identity over the polynomials
\* of the round-3 state is violated at z, and Ok otherwise; on the coset the
\* quotient was computed on it returns Ok.
C3_MutationFailsWhereIdentityFails ==
    (/\ Len(trace) = 4
     /\ trace[4].round = 4
     /\ MutatedAssembly(setup, initial_assembly)
     /\ MessageOf(4).z \notin DivisionByZeroPoints(setup)) =>
        /\ trace[4].result \in {"Ok", "Unsatisfiable"}
        /\ trace[4].result = "Unsatisfiable"
              <=> ~QuotientIdentityAt(consumed, MessageOf(4), setup)
        /\ MessageOf(4).z \in QuotientCoset(setup) => trace[4].result = "Ok"

\* round 4 rejected a mutated assignment
C3_Witness ==
    /\ Len(trace) = 4
    /\ trace[4].round = 4
    /\ MutatedAssembly(setup, initial_assembly)
    /\ MessageOf(4).z \notin DivisionByZeroPoints(setup)
    /\ trace[4].result = "Unsatisfiable"
    /\ ~QuotientIdentityAt(consumed, MessageOf(4), setup)

(***************************************************************************)
(* C6, C7: the two variants of round 1.                                    *)
(***************************************************************************)
\* rounds 1 to 3 of the run's assembly and verifier messages with the
\* monomial variant of round 1, its buffers holding zeros
MonomialFirst ==
    first_step_with_monomial_form_key(initial_assembly, crs_mons, <<0, 0, 0, 0>>)

MonomialSecond ==
    second_step_from_first_step(MonomialFirst.val.state, MessageOf(2), setup, crs_mons, setup_precomputations)

MonomialThird ==
    third_step_from_second_step(MonomialSecond.val.state, MessageOf(3), setup, crs_mons, setup_precomputations)

\* C6: the state of the Lagrange variant of round 1 takes the run through
\* rounds 2 and 3 with the results and messages the state of the monomial
\* variant gives.
C6_VariantsInterchangeable ==
    (/\ Len(trace) \in {2, 3}
     /\ trace[1].info.variant = "lagrange") =>
        LET twin == IF Len(trace) = 2 THEN MonomialSecond ELSE MonomialThird
        IN /\ trace[Len(trace)].result = ResultKind(twin)
           /\ twin.ok => prover_messages[Len(trace)] = twin.val.message

\* C7: the wire commitments the monomial variant emitted are the 4
\* commitments the Lagrange variant emits for the same assembly.
C7_CommitmentsAgree ==
    (/\ Len(trace) = 1
     /\ trace[1].result = "Ok"
     /\ trace[1].info.variant = "monomial") =>
        LET other == first_step_with_lagrange_form_key(initial_assembly, crs_vals)
        IN /\ other.ok
           /\ Len(prover_messages[1].wire_commitments) = 4
           /\ prover_messages[1].wire_commitments = other.val.message.wire_commitments

(***************************************************************************)
(* C8, C9: the precomputation resolver.                                    *)
(***************************************************************************)
\* the cache option the run was not given
OtherCache ==
    IF setup_precomputations.some THEN None
    ELSE Some(Precomputations[CircuitOf(setup)])

\* the polynomials of a sequence of resolved wrappers
Polys(precs) == [k \in 1..Len(precs) |-> as_ref(precs[k].val)]

\* every quantity round 3 resolves, under a cache option
ResolvedInThirdStep(cache) ==
    Polys([k \in 1..5 |-> get_precomputed_selector_lde_for_index(k - 1, setup, cache)])
    \o Polys(<< get_precomputed_next_step_selector_lde_for_index(0, setup, cache) >>)
    \o Polys([k \in 1..STATE_WIDTH |->
                 get_precomputed_permutation_poly_lde_for_index(k - 1, setup, cache)])
    \o Polys(<< get_precomputed_x_lde(setup.n + 1, cache),
                get_precomputed_inverse_divisor(setup.n + 1, cache) >>)

\* C8: the quantities rounds 2 and 3 resolve have the same values with the
\* cache and without it, and the round returns the same result, state and
\* message under either; rounds 4 and 5 take no cache, so all five messages
\* are the same.
C8_ResolverPathsAgree ==
    /\ (Len(trace) = 2 /\ trace[2].round = 2) =>
          LET other == second_step_from_first_step(consumed, MessageOf(2), setup, crs_mons, OtherCache)
              here == PermutationValuesOfSizeNMinusOne(setup, setup_precomputations)
              there == PermutationValuesOfSizeNMinusOne(setup, OtherCache)
          IN /\ [k \in 1..Len(here) |-> as_ref(here[k])]
                   = [k \in 1..Len(there) |-> as_ref(there[k])]
             /\ ResultKind(other) = trace[2].result
             /\ other.ok => /\ other.val.state = prover_state
                            /\ other.val.message = prover_messages[2]
    /\ (Len(trace) = 3 /\ trace[3].round = 3) =>
          LET other == third_step_from_second_step(consumed, MessageOf(3), setup, crs_mons, OtherCache)
          IN /\ ResolvedInThirdStep(setup_precomputations) = ResolvedInThirdStep(OtherCache)
             /\ ResultKind(other) = trace[3].result
             /\ other.ok => /\ other.val.state = prover_state
                            /\ other.val.message = prover_messages[3]

\* round 3 succeeded without the cache
C8_Witness ==
    /\ Len(trace) = 3
    /\ trace[3].result = "Ok"
    /\ ~setup_precomputations.some
    /\ Len(prover_messages) = 3

\* C9: no round reaches unreachable!(), and every wrapper a successful round
\* resolved is Borrowed when the cache is present and Owned when it is absent.
C9_EmptyWrapperNeverRead ==
    \A i \in 1..Len(trace) :
        /\ trace[i].result # "unreachable"
        /\ (trace[i].round \in {2, 3} /\ trace[i].result = "Ok") =>
              /\ Len(trace[i].info.resolved) = IF trace[i].round = 2 THEN 4 ELSE 12
              /\ \A k \in 1..Len(trace[i].info.resolved) :
                    trace[i].info.resolved[k] =
                        IF setup_precomputations.some THEN "Borrowed" ELSE "Owned"

\* rounds 2 and 3 resolved their wrappers without the cache
C9_Witness ==
    /\ Len(trace) >= 3
    /\ trace[3].result = "Ok"
    /\ ~setup_precomputations.some
    /\ \A k \in 1..12 : trace[3].info.resolved[k] = "Owned"

(***************************************************************************)
(* C10: the grand product.                                                 *)
(***************************************************************************)
\* the numerator and the denominator of the ratio of a row, from the cells of
\* the assembly and the copy permutation of the circuit
RatioNumerator(row, beta, gamma) ==
    LET f[c \in 0..STATE_WIDTH] ==
            IF c = 0 THEN 1
            ELSE FrMul(f[c - 1],
                       FrAdd(FrAdd(CellValue(initial_assembly, c - 1, row), gamma),
                             FrMul(beta, FrMul(CosetShift(c - 1),
                                               OmegaPow(setup.n + 1, row)))))
    IN f[STATE_WIDTH]

RatioDenominator(row, beta, gamma) ==
    LET f[c \in 0..STATE_WIDTH] ==
            IF c = 0 THEN 1
            ELSE LET img == PermutedCell(CircuitOf(setup), <<c - 1, row>>)
                 IN FrMul(f[c - 1],
                          FrAdd(FrAdd(CellValue(initial_assembly, c - 1, row), gamma),
                                FrMul(beta, FrMul(CosetShift(img[1]),
                                                  OmegaPow(setup.n + 1, img[2])))))
    IN f[STATE_WIDTH]

\* C10: round 2 never fails its assertions; when it succeeds the values of
\* the grand-product polynomial on the domain are n + 1 (a power of two) many,
\* the first is 1, and each next one is the previous times the ratio of its row.
C10_GrandProductStartsAtOne ==
    (Len(trace) = 2 /\ trace[2].round = 2) =>
        /\ trace[2].result \in {"Ok", "DivisionByZero"}
        /\ trace[2].result = "Ok" =>
              LET z == fft(prover_state.z_in_monomial_form)
                  beta == MessageOf(2).beta
                  gamma == MessageOf(2).gamma
              IN /\ Len(z) = initial_assembly.n + 1
                 /\ IsPowerOfTwo(Len(z))
                 /\ z[1] = 1
                 /\ \A i \in 1..initial_assembly.n :
                       /\ RatioDenominator(i - 1, beta, gamma) # 0
                       /\ FrMul(z[i + 1], RatioDenominator(i - 1, beta, gamma))
                             = FrMul(z[i], RatioNumerator(i - 1, beta, gamma))

\* round 2 built a grand product that does not stay at 1
C10_Witness ==
    /\ Len(trace) = 2
    /\ trace[2].result = "Ok"
    /\ \E i \in 1..Len(prover_state.z_in_monomial_form) :
          fft(prover_state.z_in_monomial_form)[i] # 1

(***************************************************************************)
(* C11: a zero denominator in round 2.                                     *)
(***************************************************************************)
\* the rows of the domain without its last point whose denominator product
\* over the 4 wires is zero
ZeroDenominatorRows(beta, gamma) ==
    {row \in 0..(initial_assembly.n - 1) : RatioDenominator(row, beta, gamma) = 0}

\* C11: when the denominator product of some row j < n is zero, round 2
\* returns Err(DivisionByZero), no second state and no grand-product
\* commitment.
C11_ZeroDenominatorIsAnError ==
    (/\ Len(trace) = 2
     /\ trace[2].round = 2
     /\ ZeroDenominatorRows(MessageOf(2).beta, MessageOf(2).gamma) # {}) =>
        /\ trace[2].result = "DivisionByZero"
        /\ prover_state = NoState
        /\ Len(prover_messages) = 1
        /\ prover_messages[1].round = 1

\* round 2 met a row with a zero denominator at challenges that are not zero
C11_Witness ==
    /\ Len(trace) = 2
    /\ trace[2].round = 2
    /\ MessageOf(2).beta # 0
    /\ MessageOf(2).gamma # 0
    /\ ZeroDenominatorRows(MessageOf(2).beta, MessageOf(2).gamma) # {}
    /\ trace[2].result = "DivisionByZero"

(***************************************************************************)
(* C12: determinism of the prover messages.                                *)
(***************************************************************************)
\* C12: the message of a round is the message the round gives on the same
\* arguments whatever the worker pool's chunk size and whatever the memory
\* its buffers were allocated in.
C12_MessagesAreDetermined ==
    /\ (Len(trace) = 1 /\ trace[1].result = "Ok" /\ trace[1].info.variant = "monomial") =>
          \A uninitialized \in UninitializedTails :
              LET other == first_step_with_monomial_form_key(initial_assembly, crs_mons, uninitialized)
              IN other.ok /\ other.val.message = prover_messages[1]
    /\ (Len(trace) = 5 /\ trace[5].result = "Ok") =>
          \A chunk \in ChunkSizes :
              LET other == fifth_step_from_fourth_step(consumed, MessageOf(5), setup, crs_mons, chunk)
              IN other.ok /\ other.val.message = prover_messages[5]

C14_RoundOnePreconditions ==
    trace # <<>> =>
        IF ~initial_assembly.is_finalized \/ ~IsPowerOfTwo(initial_assembly.n + 1)
        THEN /\ trace = << [round |-> 1, result |-> "panic", info |-> trace[1].info] >>
             /\ prover_state = NoState
             /\ prover_messages = <<>>
             /\ kernels.acquired = {}
        ELSE trace[1].result = "Ok" =>
               /\ Len(trace) = 1 => prover_state.required_domain_size = initial_assembly.n + 1
               /\ prover_messages[1].input_values = initial_assembly.input_assingments
               /\ prover_messages[1].n = initial_assembly.n
               /\ prover_messages[1].num_inputs = initial_assembly.num_inputs
               /\ Len(prover_messages[1].wire_commitments) = 4

\* round 1 was given a finalized assembly whose n + 1 is no power of two
C14_Witness ==
    /\ Len(trace) = 1
    /\ initial_assembly.is_finalized
    /\ ~IsPowerOfTwo(initial_assembly.n + 1)
    /\ trace[1].result = "panic"
    /\ prover_messages = <<>>

(***************************************************************************)
(* C15, C16: the division of the aggregates of round 5.                    *)
(***************************************************************************)
\* what the invocation of round 5 computed: the two aggregates, what the
\* division tasks left in polys, and the challenge at the four assertions
FifthResult == trace[5].info

\* the point each aggregate is opened at
OpeningPoints ==
    << MessageOf(5).z,
       FrMul(MessageOf(5).z, DomainGenerator(consumed.required_domain_size)) >>

\* C15: for either chunk size both aggregates are replaced by their
\* synthetic-division quotients before being committed.
C15_BothAggregatesDivided ==
    (Len(trace) = 5 /\ trace[5].result = "Ok") =>
        /\ \A k \in 1..2 :
              FifthResult.quotients[k] = divide_single(FifthResult.dividends[k], OpeningPoints[k])
        /\ prover_messages[5].opening_proof_at_z
              = commit_using_monomials(divide_single(FifthResult.dividends[1], OpeningPoints[1]), crs_mons).val
        /\ prover_messages[5].opening_proof_at_z_omega
              = commit_using_monomials(divide_single(FifthResult.dividends[2], OpeningPoints[2]), crs_mons).val

\* the aggregates a division task was spawned for: the first of each chunk
DividedAggregates == {k \in 1..2 : (k - 1) % trace[5].info.chunk = 0}

\* q(X) * (X - pt) in coefficient form, one coefficient longer than q
TimesLinear(q, pt) ==
    [i \in 1..(Len(q) + 1) |->
        FrSub(IF i = 1 THEN 0 ELSE q[i - 1],
              IF i > Len(q) THEN 0 ELSE FrMul(pt, q[i]))]

\* c(X) - r in coefficient form, padded with one zero coefficient
MinusConstant(c, r) ==
    [i \in 1..(Len(c) + 1) |->
        IF i = 1 THEN FrSub(c[1], r) ELSE IF i > Len(c) THEN 0 ELSE c[i]]

C17_SelfCheckIsQuotientIdentity ==
    (Len(trace) = 4 /\ trace[4].round = 4 /\ trace[4].info.checked) =>
        /\ (trace[4].info.lhs = trace[4].info.rhs)
              <=> QuotientIdentityAt(consumed, MessageOf(4), setup)
        /\ trace[4].info.lhs
              = FrMul(evaluate_at(Concatenation(consumed.t_poly_parts, 1), MessageOf(4).z),
                      FrSub(FrPow(MessageOf(4).z, consumed.required_domain_size), 1))

\* round 4 compared its sides for an unsatisfied assignment with public
\* inputs, off the coset, with the permutation argument weighted in, and
\* found them equal
C17_Witness ==
    /\ Len(trace) = 4
    /\ trace[4].round = 4
    /\ trace[4].info.checked
    /\ MutatedAssembly(setup, initial_assembly)
    /\ Len(consumed.input_values) > 0
    /\ MessageOf(4).alpha # 0
    /\ MessageOf(4).z \notin QuotientCoset(setup)
    /\ trace[4].info.lhs = trace[4].info.rhs
    /\ QuotientIdentityAt(consumed, MessageOf(4), setup)

(***************************************************************************)
(* C18, C19: the fixed index mapping of the factor-4 LDE.                  *)
(***************************************************************************)
\* the destinations task i (from 1) of the followed copy writes to
Destinations(i) ==
    {DstIndex((i - 1) * scatter.chunk + j, log2_floor(scatter.domain_size)) :
        j \in 0..(TaskLen(scatter, i - 1) - 1)}

\* the array the model's resolver returns for the followed copy
ResolvedOnTheFly ==
    IF scatter.function = "get_precomputed_x_lde"
    THEN as_ref(get_precomputed_x_lde(scatter.domain_size, None).val)
    ELSE as_ref(get_precomputed_inverse_divisor(scatter.domain_size, None).val)

\* C18: the index mapping of both resolver functions is a bijection on
\* 0..4n-1; under every chunking no slot of the buffer is written twice, no
\* two tasks write the same slot, a slot is unwritten only while its task has
\* not reached it, and none is unwritten when the scope ends.
C18_EachSlotWrittenOnce ==
    LET new_size == scatter.domain_size * LDE_FACTOR
    IN /\ (\A i \in 1..Len(scatter.done) : scatter.done[i] = 0) =>
             \* of the mapping and the chunking alone: looked at as the scope starts
             /\ {DstIndex(index, log2_floor(scatter.domain_size)) : index \in 0..(new_size - 1)}
                   = 0..(new_size - 1)
             /\ \A i, k \in 1..Len(scatter.done) :
                   i # k => Destinations(i) \cap Destinations(k) = {}
       /\ \A s \in 1..new_size :
             /\ scatter.writes[s] <= 1
             /\ scatter.writes[s] = 0 <=> scatter.result[s] = Uninit
             /\ scatter.stage # "scope" => scatter.writes[s] = 1
       /\ (scatter.stage = "bitreversed" /\ scatter.block = 0) =>
             scatter.result = ResolvedOnTheFly

\* the scope of get_precomputed_inverse_divisor ended for n = 8 with 4 tasks
C18_Witness ==
    /\ scatter.stage = "bitreversed"
    /\ scatter.block = 0
    /\ scatter.function = "get_precomputed_inverse_divisor"
    /\ scatter.domain_size = 8
    /\ Len(scatter.done) = 4
    /\ \A s \in 1..Len(scatter.result) : scatter.writes[s] = 1

\* C19: after the elements of a natural-order array of size 4n were placed
\* by the mapping, the bit-reversal of each of the 4 blocks of size n
\* followed by the bit-reversal of the whole array returns every element to
\* its natural index.
C19_UnBitreverseInvertsMapping ==
    /\ scatter.stage = "natural" => scatter.result = scatter.coeffs
    /\ (scatter.stage = "bitreversed" /\ scatter.block = 0) =>
          UnBitreverse(scatter.result, scatter.domain_size) = scatter.coeffs

\* the array of get_precomputed_x_lde for n = 8, whose elements are all
\* different, is back in natural order
C19_Witness ==
    /\ scatter.stage = "natural"
    /\ scatter.function = "get_precomputed_x_lde"
    /\ scatter.domain_size = 8
    /\ scatter.result = scatter.coeffs
    /\ \A s, t \in 1..Len(scatter.coeffs) : s # t => scatter.coeffs[s] # scatter.coeffs[t]

(***************************************************************************)
(* C20: the weights of the aggregates of round 5.                           *)
(***************************************************************************)
\* sum_i weights[i] * polys[i] in coefficient form
WeightedSum(polys, weights) ==
    LET term[i \in 0..Len(polys)] ==
            IF i = 0 THEN [j \in 1..Len(polys[1]) |-> 0]
            ELSE [j \in 1..Len(polys[1]) |->
                     FrAdd(term[i - 1][j], FrMul(weights[i], polys[i][j]))]
    IN term[Len(polys)]

\* C20: the aggregate at z is t_0 + z^n t_1 + z^2n t_2 + z^3n t_3 (weight
\* v^0) + v^1 r + v^2 a + v^3 b + v^4 c + v^5 d + v^6 sigma_1 + v^7 sigma_2
\* + v^8 sigma_3, the aggregate at z*omega is v^9 Z + v^10 d, and the
\* challenge at the four assertions is v^1, v^5, v^8 and v^10.
C20_IncreasingPowersOfV ==
    (Len(trace) = 5 /\ trace[5].result = "Ok") =>
        LET v == MessageOf(5).v
            z_in_domain_size == FrPow(MessageOf(5).z, consumed.required_domain_size)
            w == consumed.witness_polys_as_coeffs
            sigma == setup.permutation_polynomials
            t == consumed.t_poly_parts
        IN /\ Len(t) = 4
           /\ FifthResult.dividends[1]
                 = WeightedSum(
                      << t[1], t[2], t[3], t[4],
                         consumed.linearization_polynomial,
                         w[1], w[2], w[3], w[4], sigma[1], sigma[2], sigma[3] >>,
                      << 1, z_in_domain_size, FrPow(z_in_domain_size, 2),
                         FrPow(z_in_domain_size, 3),
                         FrPow(v, 1),
                         FrPow(v, 2), FrPow(v, 3), FrPow(v, 4), FrPow(v, 5),
                         FrPow(v, 6), FrPow(v, 7), FrPow(v, 8) >>)
           /\ FifthResult.dividends[2]
                 = WeightedSum(<< consumed.z_in_monomial_form, w[4] >>,
                               << FrPow(v, 9), FrPow(v, 10) >>)
           /\ FifthResult.asserted
                 = << FrPow(v, 1), FrPow(v, 5), FrPow(v, 8), FrPow(v, 10) >>

\* round 5 ran with a challenge v whose powers up to the tenth all differ
C20_Witness ==
    /\ Len(trace) = 5
    /\ trace[5].result = "Ok"
    /\ \A i, k \in 0..10 : i # k => FrPow(MessageOf(5).v, i) # FrPow(MessageOf(5).v, k)
    /\ FifthResult.asserted[4] = FrPow(MessageOf(5).v, 10)

(***************************************************************************)
(* C21: the quotient chunks recombined by powers of z^n.                   *)
(***************************************************************************)
\* C21: for every z, the sum over the chunks of t_i(z) * z^(n*i) that round 4
\* computes as quotient_polynomial_at_z equals the unsplit quotient polynomial
\* evaluated at z, and the quotient part of the round-5 aggregate,
\* t_0 + sum_{i>=1} z^(n*i) * t_i(X), evaluated at X = z equals that value;
\* the value round 4 stored is the one at the z it was given.
C21_RecombinationIsDirectEvaluation ==
    /\ prover_state.round = 3 =>
          \A z \in EvaluationPoints :
              LET parts == prover_state.t_poly_parts
                  n == prover_state.required_domain_size
              IN /\ QuotientAtZ(parts, z, n) = evaluate_at(Concatenation(parts, 1), z)
                 /\ evaluate_at(RecombinedQuotient(parts, z, n), z)
                       = QuotientAtZ(parts, z, n)
    /\ prover_state.round = 4 =>
          LET parts == prover_state.t_poly_parts
              n == prover_state.required_domain_size
              z == MessageOf(4).z
          IN /\ prover_state.quotient_polynomial_at_z
                   = evaluate_at(Concatenation(parts, 1), z)
             /\ evaluate_at(RecombinedQuotient(parts, z, n), z)
                   = prover_state.quotient_polynomial_at_z

\* round 4 succeeded at a z other than 0 and 1 on a quotient whose chunks
\* after the first are not all zero
C21_Witness ==
    /\ prover_state.round = 4
    /\ MessageOf(4).z \notin {0, 1}
    /\ Len(prover_state.t_poly_parts) >= 2
    /\ \E i \in 2..Len(prover_state.t_poly_parts) :
         \E j \in 1..Len(prover_state.t_poly_parts[i]) :
             prover_state.t_poly_parts[i][j] # 0
    /\ prover_state.quotient_polynomial_at_z
           # evaluate_at(prover_state.t_poly_parts[1], MessageOf(4).z)

(***************************************************************************)
(* C22: the chunks of the quotient polynomial and their commitments.       *)
(***************************************************************************)
\* C22 as stated: round 3 splits the quotient polynomial into ceil(deg/n)
\* chunks of size n, never more than 4, with one commitment per chunk in
\* chunk order and the same chunks in the third state.  deg is read as the
\* degree of the quotient or as the number of its coefficients.
C22_CeilDegChunks ==
    prover_state.round = 3 =>
        LET parts == prover_state.t_poly_parts
            n == prover_state.required_domain_size
            t == Concatenation(parts, 1)
            nonzero == {i \in 1..Len(t) : t[i] # 0}
            deg == IF nonzero = {} THEN 0
                   ELSE (CHOOSE i \in nonzero : \A j \in nonzero : j <= i) - 1
        IN /\ Len(parts) \in {(deg + n - 1) \div n, (deg + n) \div n}
           /\ Len(parts) <= 4
           /\ \A i \in 1..Len(parts) : Len(parts[i]) = n
           /\ Len(prover_messages[3].quotient_poly_commitments) = Len(parts)

\* C22 as amended: round 3 splits the LDE_FACTOR * n coefficients of the
\* quotient polynomial into exactly LDE_FACTOR = 4 chunks of size n, at least
\* ceil((deg + 1) / n) of them, the chunks past the degree being zero; the
\* third message holds exactly one commitment per chunk, in chunk order, of
\* the chunks stored in the third state.
C22_FourChunksCommittedInOrder ==
    prover_state.round = 3 =>
        LET parts == prover_state.t_poly_parts
            n == prover_state.required_domain_size
            t == Concatenation(parts, 1)
            nonzero == {i \in 1..Len(t) : t[i] # 0}
            deg == IF nonzero = {} THEN 0
                   ELSE (CHOOSE i \in nonzero : \A j \in nonzero : j <= i) - 1
            commitments == prover_messages[3].quotient_poly_commitments
        IN /\ Len(parts) = LDE_FACTOR
           /\ Len(parts) <= 4
           /\ (deg + n) \div n <= Len(parts)
           /\ \A i \in 1..Len(parts) :
                /\ Len(parts[i]) = n
                /\ i > (deg + n) \div n => \A j \in 1..n : parts[i][j] = 0
           /\ Len(commitments) = Len(parts)
           /\ \A i \in 1..Len(parts) :
                commitments[i] = commit_using_monomials(parts[i], crs_mons).val

\* round 3 succeeded on a quotient whose degree is below 3n, with chunks
\* whose commitments differ
C22_Witness ==
    /\ prover_state.round = 3
    /\ Len(prover_messages) = 3
    /\ \E j \in 1..prover_state.required_domain_size :
          prover_state.t_poly_parts[2][j] # 0
    /\ \A j \in 1..prover_state.required_domain_size :
          prover_state.t_poly_parts[4][j] = 0
    /\ prover_messages[3].quotient_poly_commitments[1]
           # prover_messages[3].quotient_poly_commitments[2]

(***************************************************************************)
(* C23: what round 4 evaluates and reports.                                *)
(***************************************************************************)
\* C23: on success round 4 produces exactly 4 wire evaluations at z, of A, B,
\* C, D in order, exactly 1 wire evaluation at z * omega, of D, exactly 3
\* permutation-polynomial evaluations at z, of all but the last one, the
\* grand-product evaluation at z * omega, the quotient evaluation and the
\* linearization evaluation; every field of the fourth message equals the
\* field of that name in the fourth state.
C23_FourthMessageIsTheEvaluations ==
    prover_state.round = 4 =>
        LET state == prover_state
            message == prover_messages[4]
            z == MessageOf(4).z
            z_by_omega == FrMul(z, DomainGenerator(state.required_domain_size))
        IN /\ Len(prover_messages) = 4
           /\ Len(message.wire_values_at_z) = 4
           /\ \A i \in 1..4 :
                message.wire_values_at_z[i]
                    = evaluate_at(state.witness_polys_as_coeffs[i], z)
           /\ Len(message.wire_values_at_z_omega) = 1
           /\ message.wire_values_at_z_omega[1]
                 = evaluate_at(state.witness_polys_as_coeffs[4], z_by_omega)
           /\ Len(message.permutation_polynomials_at_z) = 3
           /\ Len(setup.permutation_polynomials) = 4
           /\ \A i \in 1..3 :
                message.permutation_polynomials_at_z[i]
                    = evaluate_at(setup.permutation_polynomials[i], z)
           /\ message.grand_product_at_z_omega
                 = evaluate_at(state.z_in_monomial_form, z_by_omega)
           /\ message.quotient_polynomial_at_z
                 = QuotientAtZ(state.t_poly_parts, z, state.required_domain_size)
           /\ message.linearization_polynomial_at_z
                 = evaluate_at(state.linearization_polynomial, z)
           /\ message.wire_values_at_z = state.wire_values_at_z
           /\ message.wire_values_at_z_omega = state.wire_values_at_z_omega
           /\ message.permutation_polynomials_at_z = state.permutation_polynomials_at_z
           /\ message.grand_product_at_z_omega = state.grand_product_at_z_omega
           /\ message.quotient_polynomial_at_z = state.quotient_polynomial_at_z
           /\ message.linearization_polynomial_at_z
                 = state.linearization_polynomial_at_z

\* round 4 succeeded with a quotient evaluation that differs from the
\* linearization evaluation and a D wire that differs at z and z * omega
C23_Witness ==
    /\ prover_state.round = 4
    /\ Len(prover_messages) = 4
    /\ prover_messages[4].quotient_polynomial_at_z
           # prover_messages[4].linearization_polynomial_at_z
    /\ prover_messages[4].wire_values_at_z_omega[1]
           # prover_messages[4].wire_values_at_z[4]

(***************************************************************************)
(* C24: round 3 checks nothing; the assignment is judged in round 4.       *)
(***************************************************************************)
\* C24: round 3 performs no consistency check: whatever the assignment,
\* satisfied or not, every invocation of round 3 returns Ok, never
\* Unsatisfiable, and emits its quotient commitments; Unsatisfiable is
\* returned by round 4 only, after the messages of rounds 1, 2 and 3 have
\* been produced.
C24_RoundThreeNeverRejects ==
    /\ \A i \in InvocationsOf(3) :
         /\ trace[i].result = "Ok"
         /\ Len(prover_messages) >= 3
         /\ Len(prover_messages[3].quotient_poly_commitments) = LDE_FACTOR
    /\ \A i \in 1..Len(trace) :
         trace[i].result = "Unsatisfiable" =>
            /\ trace[i].round = 4
            /\ Len(prover_messages) = 3
            /\ \A k \in 1..3 : prover_messages[k].round = k

(***************************************************************************)
(* C25: the challenges of one round and of the next.  The rounds are       *)
(* pub(crate) functions and each takes its verifier message by value; a    *)
(* caller other than the transcript driver may pass any message.           *)
(***************************************************************************)
\* the challenges such a caller passes to rounds 3 and 4
CallerChallenges == {1, 2}

\* a satisfied assignment and no cache
InitCaller ==
    /\ Init
    /\ setup_precomputations = None
    /\ HonestAssembly(setup, initial_assembly)

\* round 3 with a message whose three fields the caller chose
CallerThirdStep ==
    /\ prover_state.round = 2
    /\ \E a \in CallerChallenges, b \in CallerChallenges, g \in CallerChallenges :
         LET message == [alpha |-> a, beta |-> b, gamma |-> g]
             res == third_step_from_second_step(prover_state, message, setup,
                                                crs_mons, setup_precomputations)
         IN /\ Return(3, prover_state, message, res,
                      [resolved |-> IF res.ok THEN res.val.resolved ELSE <<>>])
            /\ UNCHANGED assembly

\* round 4 with a message whose four fields the caller chose
CallerFourthStep ==
    /\ prover_state.round = 3
    /\ \E a \in CallerChallenges, b \in CallerChallenges, g \in CallerChallenges :
         \E pt \in EvaluationPoints :
           LET message == [alpha |-> a, beta |-> b, gamma |-> g, z |-> pt]
               res == fourth_step_from_third_step(prover_state, message, setup)
           IN /\ Return(4, prover_state, message, res,
                        IF res.ok
                        THEN [checked |-> TRUE, lhs |-> res.val.lhs, rhs |-> res.val.rhs]
                        ELSE IF res.err = "Unsatisfiable"
                        THEN [checked |-> TRUE, lhs |-> res.lhs, rhs |-> res.rhs]
                        ELSE [checked |-> FALSE])
              /\ UNCHANGED assembly

NextCaller ==
    \/ FirstStepLagrange
    \/ FirstStepMonomial
    \/ SecondStep
    \/ CallerThirdStep
    \/ CallerFourthStep
    \/ FifthStep

SpecCaller == InitCaller /\ [][NextCaller]_vars

C26_HandlesNeverOverlap ==
    Len(trace) >= 1 =>
        LET ev == kernels.events
            k == trace[Len(trace)].round
            ok == trace[Len(trace)].result = "Ok"
            kinds == {"fft_kern", "multiexp_kern"}
            live(i, h) ==
                Cardinality({j \in 1..i : ev[j] = <<"new", h>>})
                    - Cardinality({j \in 1..i : ev[j] = <<"drop", h>>})
            both == << <<"new", "fft_kern">>, <<"drop", "fft_kern">>,
                       <<"new", "multiexp_kern">>, <<"drop", "multiexp_kern">> >>
        IN /\ \A i \in 0..Len(ev) :
                /\ \A h \in kinds : live(i, h) \in {0, 1}
                /\ live(i, "fft_kern") + live(i, "multiexp_kern") <= 1
           /\ \A h \in kinds : live(Len(ev), h) = 0
           /\ \A i, j \in 1..Len(ev) :
                (ev[i] = <<"drop", "fft_kern">> /\ ev[j] = <<"new", "multiexp_kern">>)
                    => i < j
           /\ {ev[i][2] : i \in 1..Len(ev)} = kernels.acquired
           /\ (k = 1 /\ trace[1].info.variant = "lagrange") => ev = <<>>
           /\ (k = 1 /\ trace[1].info.variant = "monomial" /\ ok) => ev = both
           /\ (k \in {2, 3} /\ ok) => ev = both
           /\ k = 4 => ev = <<>>
           /\ k = 5 => \A i \in 1..Len(ev) : ev[i][2] = "multiexp_kern"
           /\ (k = 5 /\ ok) =>
                ev = << <<"new", "multiexp_kern">>, <<"drop", "multiexp_kern">> >>

\* round 3 returned Ok after creating and dropping fft_kern and then
\* multiexp_kern
C26_Witness ==
    /\ Len(trace) = 3
    /\ trace[3].result = "Ok"
    /\ Len(kernels.events) = 4
    /\ kernels.events[2] = <<"drop", "fft_kern">>
    /\ kernels.events[3] = <<"new", "multiexp_kern">>

(***************************************************************************)
(* C27: what crosses the boundary between two rounds.                      *)
(***************************************************************************)
\* C27: in every step of a run the setup polynomials, the precomputation
\* cache and the CRS stay as they are; the required_domain_size, non_residues
\* and input_values of every round state are the values round 1 fixed from
\* the assembly and those of the state the round took; and
\* witness_polys_as_coeffs from round 1 on, z_in_monomial_form from round 2
\* on and t_poly_parts from round 3 on are, in each later state up to that of
\* round 4, the ones of the state the round took.
C27_HandOffCarriedUnchanged ==
    [][ /\ UNCHANGED environment
        /\ prover_state'.round >= 1 =>
              /\ prover_state'.required_domain_size = initial_assembly.n + 1
              /\ prover_state'.non_residues = make_non_residues
              /\ prover_state'.input_values = initial_assembly.input_assingments
        /\ prover_state'.round >= 2 =>
              /\ prover_state.round = prover_state'.round - 1
              /\ prover_state'.required_domain_size = prover_state.required_domain_size
              /\ prover_state'.non_residues = prover_state.non_residues
              /\ prover_state'.input_values = prover_state.input_values
              /\ prover_state'.witness_polys_as_coeffs
                    = prover_state.witness_polys_as_coeffs
        /\ prover_state'.round >= 3 =>
              prover_state'.z_in_monomial_form = prover_state.z_in_monomial_form
        /\ prover_state'.round >= 4 =>
              prover_state'.t_poly_parts = prover_state.t_poly_parts
      ]_vars

\* round 4 returned its state in a run with public inputs and a cache, the
\* witness polynomials, the grand product and the quotient chunks having gone
\* through the rounds before it
C27_Witness ==
    /\ prover_state.round = 4
    /\ consumed.round = 3
    /\ setup_precomputations.some
    /\ Len(prover_state.input_values) >= 1
    /\ Len(prover_state.witness_polys_as_coeffs) = STATE_WIDTH
    /\ prover_state.witness_polys_as_coeffs = consumed.witness_polys_as_coeffs
    /\ prover_state.z_in_monomial_form = consumed.z_in_monomial_form
    /\ prover_state.t_poly_parts = consumed.t_poly_parts
    /\ \E j \in 1..Len(prover_state.t_poly_parts[1]) :
          prover_state.t_poly_parts[1][j] # 0

====
